---- MODULE Spec2Model ----
(***************************************************************************)
(* Call processing orchestrator of the Bitrix webhook service               *)
(* (src/bitrix_main.py, src/bitrix_client.py, src/core/whisper_engine.py).  *)
(*                                                                          *)
(* Every accepted webhook event starts one daemon thread that runs          *)
(* process_call(activity_id).  The threads share the set PROCESSING, the    *)
(* lock LOCK that guards it, the lock WHISPER_LOCK around the transcriber   *)
(* and the files of TMP_DIR.  One action of the model is one step of        *)
(* process_call between two points where another thread may run.            *)
(***************************************************************************)
EXTENDS Integers, FiniteSets, Sequences, TLC

\* ------------------------------------------------------------------ bounds
\* Number of distinct activity ids (call ids) the events carry.
NCalls == 2
\* Number of distinct recording identifiers the CRM hands out.
NFiles == 1

\* --------------------------------------------------------- program constants
\* Number of polls of the activity before the job gives up.
MAX_RETRY == 15
\* BitrixClient.download_audio rejects a file below this size.
ClientMinSize == 1024
\* process_call rejects a file below this size.
MinAudioSize == 5000

\* The threads the webhook starts in one behaviour: two concurrent jobs.
\* (With {1, 2, 3} the graph has 20,139,867 states and every formula below
\* that holds for two threads holds for three.)
Threads == {1, 2}
CallIds == 1..NCalls
FileIds == 1..NFiles

\* None of Python; also "no thread" for a lock and "no file" on the disk.
None == 0
\* The empty string download_audio returns on failure.
EmptyPath == -1

\* Sizes a finished download can have, on both sides of the two thresholds.
DownloadSizes == {ClientMinSize - 1, ClientMinSize, MinAudioSize - 1, MinAudioSize}

\* What client.get_call_activity and the parsing of the record can yield.
\*   "none"      no record (empty result, API error)
\*   "notcall"   TYPE_ID is not "2"
\*   "malformed" a call record whose DURATION is not a number: int() raises
\*   "norec"     a call record from which extract_file_id returns None
\*   "rec"       a call record with a recording identifier
Responses == {"none", "notcall", "malformed", "norec", "rec"}

\* What the four CRM linkage fields of the record resolve to.
\*   "none"    no field resolves
\*   "ok"      an owner id and a numeric owner type
\*   "badtype" an owner id and an owner type int() rejects
OwnerKinds == {"none", "ok", "badtype"}

\* What whisper_engine.transcribe_segments can do on an existing file.
\*   "ok" segments, "empty" [] (failure caught inside), "raise" an exception
TranscribeResults == {"ok", "empty", "raise"}

VARIABLES
    pc,            \* pc[t]: position of thread t in process_call
    ack,           \* ack[t]: status the webhook returned for the event of thread t
    activity_id,   \* activity_id[t]: argument of process_call
    PROCESSING,    \* the in-flight set
    LOCK,          \* thread holding LOCK, or None
    WHISPER_LOCK,  \* thread holding WHISPER_LOCK, or None
    disk,          \* disk[f]: size of TMP_DIR/<f>.mp3, or None when absent
    attempt,       \* attempt[t]: loop variable of the polling loop (0 outside it)
    polls,         \* polls[t]: fetches the polling loop has made (0 outside it)
    resp,          \* resp[t]: kind of the last fetched activity
    file_id,       \* file_id[t]: None or the recording identifier
    owner,         \* owner[t]: what the record's linkage resolved to ("unread" before)
    audio_path,    \* audio_path[t]: None, EmptyPath or the file id of the path
    size_ok,       \* size_ok[t]: the size check at line 217 passed
    whisper,       \* whisper[t]: "none" or what transcribe_segments did
    full_text,     \* full_text[t]: "" or "text"
    calls,         \* calls[t]: number of external calls made, per kind
    outcome,       \* outcome[t]: how the job ended
    arg,           \* argument of the function under check (None in Spec)
    res            \* its result, or None while it has not been applied

vars == <<pc, activity_id, PROCESSING, LOCK, WHISPER_LOCK, disk, attempt, polls, resp,
          file_id, owner, audio_path, size_ok, whisper, full_text, calls, outcome,
          ack, arg, res>>

NoCalls == [download |-> 0, transcribe |-> 0, diarize |-> 0, post |-> 0]

\* The state of the service after start-up: no thread, nothing in flight.
InitService ==
    /\ pc = [t \in Threads |-> "idle"]
    /\ ack = [t \in Threads |-> None]
    /\ activity_id = [t \in Threads |-> None]
    /\ PROCESSING = {}
    /\ LOCK = None
    /\ WHISPER_LOCK = None
    /\ disk = [f \in FileIds |-> None]
    /\ attempt = [t \in Threads |-> 0]
    /\ polls = [t \in Threads |-> 0]
    /\ resp = [t \in Threads |-> "none"]
    /\ file_id = [t \in Threads |-> None]
    /\ owner = [t \in Threads |-> "unread"]
    /\ audio_path = [t \in Threads |-> None]
    /\ size_ok = [t \in Threads |-> FALSE]
    /\ whisper = [t \in Threads |-> "none"]
    /\ full_text = [t \in Threads |-> ""]
    /\ calls = [t \in Threads |-> NoCalls]
    /\ outcome = [t \in Threads |-> "running"]

Init ==
    /\ InitService
    /\ arg = None
    /\ res = None

\* Thread t made one more external call of kind k.
Called(t, k) == [calls EXCEPT ![t][k] = @ + 1]

\* The variables of the polling loop, and those of the stages after it.
loop_vars == <<attempt, polls, resp, file_id>>
stage_vars == <<owner, audio_path, size_ok, whisper, full_text, calls>>
\* The variables of the specifications of the pure functions.
pure_vars == <<arg, res>>
\* What no step of process_call changes: its argument, the answer the webhook
\* gave, and the variables of the pure functions.
fixed_vars == <<activity_id, ack, pure_vars>>
\* The variables of the service.
service_vars == <<pc, ack, activity_id, PROCESSING, LOCK, WHISPER_LOCK, disk, loop_vars,
                  stage_vars, outcome>>

\* Status of the response of the webhook to an accepted event.
StatusOk == 200

\* Webhook that runs the job before it answers: no answer when the job starts.
Webhook_Synchronous(c) ==
    \E t \in Threads :
        /\ pc[t] = "idle"
        /\ \A u \in Threads : u < t => pc[u] # "idle"
        /\ pc' = [pc EXCEPT ![t] = "gate"]
        /\ activity_id' = [activity_id EXCEPT ![t] = c]
        /\ UNCHANGED <<PROCESSING, LOCK, WHISPER_LOCK, disk, loop_vars, stage_vars,
                       outcome, ack, pure_vars>>

\* webhook: an authenticated ONCRMACTIVITYADD / ONCRMACTIVITYUPDATE event for
\* activity c starts a thread running process_call(c) and answers 200 without
\* waiting for it.  Every other request returns before the thread is created
\* and changes nothing.
Webhook(c) ==
    \E t \in Threads :
        /\ pc[t] = "idle"
        /\ \A u \in Threads : u < t => pc[u] # "idle"
        /\ pc' = [pc EXCEPT ![t] = "gate"]
        /\ activity_id' = [activity_id EXCEPT ![t] = c]
        /\ ack' = [ack EXCEPT ![t] = StatusOk]
        /\ UNCHANGED <<PROCESSING, LOCK, WHISPER_LOCK, disk, loop_vars, stage_vars,
                       outcome, pure_vars>>

\* process_call, line 158: with LOCK (acquire).
GateAcquire(t) ==
    /\ pc[t] = "gate"
    /\ LOCK = None
    /\ LOCK' = t
    /\ pc' = [pc EXCEPT ![t] = "gate_check"]
    /\ UNCHANGED <<fixed_vars, PROCESSING, WHISPER_LOCK, disk, loop_vars, stage_vars,
                   outcome>>

\* The job leaves the try block for the finally block with the given outcome.
Exit(t, o) ==
    /\ pc' = [pc EXCEPT ![t] = "finally"]
    /\ outcome' = [outcome EXCEPT ![t] = o]

\* Nothing after the polling loop reads its loop variable or its count: the
\* model drops them with the first step the job takes after the loop.
LeaveLoop(t) ==
    /\ attempt' = [attempt EXCEPT ![t] = 0]
    /\ polls' = [polls EXCEPT ![t] = 0]

\* GateCheck without the membership test of line 159.
GateCheck_NoTest(t) ==
    /\ pc[t] = "gate_check"
    /\ LOCK' = None
    /\ PROCESSING' = PROCESSING \cup {activity_id[t]}
    /\ pc' = [pc EXCEPT ![t] = "fetch"]
    /\ attempt' = [attempt EXCEPT ![t] = 1]
    /\ UNCHANGED <<fixed_vars, WHISPER_LOCK, disk, polls, resp, file_id, stage_vars,
                   outcome>>

\* GateCheck that leaves the gate without releasing LOCK.
GateCheck_KeepLock(t) ==
    /\ pc[t] = "gate_check"
    /\ IF activity_id[t] \in PROCESSING
       THEN /\ pc' = [pc EXCEPT ![t] = "done"]
            /\ outcome' = [outcome EXCEPT ![t] = "duplicate"]
            /\ UNCHANGED <<PROCESSING, attempt>>
       ELSE /\ PROCESSING' = PROCESSING \cup {activity_id[t]}
            /\ pc' = [pc EXCEPT ![t] = "fetch"]
            /\ attempt' = [attempt EXCEPT ![t] = 1]
            /\ UNCHANGED outcome
    /\ UNCHANGED <<fixed_vars, LOCK, WHISPER_LOCK, disk, polls, resp, file_id, stage_vars>>

\* GateCheck whose test sits inside the try block: the rejected submission
\* returns through the finally block.
GateCheck_DuplicateFinally(t) ==
    /\ pc[t] = "gate_check"
    /\ LOCK' = None
    /\ IF activity_id[t] \in PROCESSING
       THEN /\ Exit(t, "duplicate")
            /\ UNCHANGED <<PROCESSING, attempt>>
       ELSE /\ PROCESSING' = PROCESSING \cup {activity_id[t]}
            /\ pc' = [pc EXCEPT ![t] = "fetch"]
            /\ attempt' = [attempt EXCEPT ![t] = 1]
            /\ UNCHANGED outcome
    /\ UNCHANGED <<fixed_vars, WHISPER_LOCK, disk, polls, resp, file_id, stage_vars>>

\* process_call, lines 159-162, under LOCK: a call id that is already in
\* PROCESSING returns at once (before the try block, so without its finally);
\* otherwise the id is added and the polling loop starts with attempt 1.
GateCheck(t) ==
    /\ pc[t] = "gate_check"
    /\ LOCK' = None
    /\ IF activity_id[t] \in PROCESSING
       THEN /\ pc' = [pc EXCEPT ![t] = "done"]
            /\ outcome' = [outcome EXCEPT ![t] = "duplicate"]
            /\ UNCHANGED <<PROCESSING, attempt>>
       ELSE /\ PROCESSING' = PROCESSING \cup {activity_id[t]}
            /\ pc' = [pc EXCEPT ![t] = "fetch"]
            /\ attempt' = [attempt EXCEPT ![t] = 1]
            /\ UNCHANGED outcome
    /\ UNCHANGED <<fixed_vars, WHISPER_LOCK, disk, polls, resp, file_id, stage_vars>>

\* Fetch in which a record that is not a call is skipped like a missing one.
Fetch_SkipNotCall(t) ==
    /\ pc[t] = "fetch"
    /\ polls' = [polls EXCEPT ![t] = @ + 1]
    /\ \E r \in Responses :
        /\ resp' = [resp EXCEPT ![t] = r]
        /\ CASE r \in {"none", "norec", "notcall"} ->
                  /\ pc' = [pc EXCEPT ![t] = "sleep"]
                  /\ UNCHANGED <<file_id, outcome>>
             [] r = "malformed" ->
                  /\ Exit(t, "Exception")
                  /\ UNCHANGED file_id
             [] r = "rec" ->
                  /\ \E f \in FileIds : file_id' = [file_id EXCEPT ![t] = f]
                  /\ pc' = [pc EXCEPT ![t] = "download"]
                  /\ UNCHANGED outcome
    /\ UNCHANGED <<fixed_vars, PROCESSING, LOCK, WHISPER_LOCK, disk, attempt, stage_vars>>

\* Fetch that asks again at once when no record came back: the empty answer
\* does not use up the attempt.
Fetch_NoneRepeats(t) ==
    /\ pc[t] = "fetch"
    /\ polls[t] <= MAX_RETRY
    /\ polls' = [polls EXCEPT ![t] = @ + 1]
    /\ \E r \in Responses :
        /\ resp' = [resp EXCEPT ![t] = r]
        /\ CASE r = "none" ->
                  UNCHANGED <<pc, file_id, outcome>>
             [] r = "norec" ->
                  /\ pc' = [pc EXCEPT ![t] = "sleep"]
                  /\ UNCHANGED <<file_id, outcome>>
             [] r = "notcall" ->
                  /\ Exit(t, "NotACall")
                  /\ UNCHANGED file_id
             [] r = "malformed" ->
                  /\ Exit(t, "Exception")
                  /\ UNCHANGED file_id
             [] r = "rec" ->
                  /\ \E f \in FileIds : file_id' = [file_id EXCEPT ![t] = f]
                  /\ pc' = [pc EXCEPT ![t] = "download"]
                  /\ UNCHANGED outcome
    /\ UNCHANGED <<fixed_vars, PROCESSING, LOCK, WHISPER_LOCK, disk, attempt, stage_vars>>

\* process_call, lines 177-204: one iteration of the polling loop, from the
\* fetch to its sleep, break, return or exception.
Fetch(t) ==
    /\ pc[t] = "fetch"
    /\ polls' = [polls EXCEPT ![t] = @ + 1]
    /\ \E r \in Responses :
        /\ resp' = [resp EXCEPT ![t] = r]
        /\ CASE r \in {"none", "norec"} ->
                  /\ pc' = [pc EXCEPT ![t] = "sleep"]
                  /\ UNCHANGED <<file_id, outcome>>
             [] r = "notcall" ->
                  /\ Exit(t, "NotACall")
                  /\ UNCHANGED file_id
             [] r = "malformed" ->
                  /\ Exit(t, "Exception")
                  /\ UNCHANGED file_id
             [] r = "rec" ->
                  /\ \E f \in FileIds : file_id' = [file_id EXCEPT ![t] = f]
                  /\ pc' = [pc EXCEPT ![t] = "download"]
                  /\ UNCHANGED outcome
    /\ UNCHANGED <<fixed_vars, PROCESSING, LOCK, WHISPER_LOCK, disk, attempt, stage_vars>>

\* Sleep of a loop over range(1, MAX_RETRY): one attempt short.
Sleep_OneShort(t) ==
    /\ pc[t] = "sleep"
    /\ IF attempt[t] < MAX_RETRY - 1
       THEN /\ attempt' = [attempt EXCEPT ![t] = @ + 1]
            /\ pc' = [pc EXCEPT ![t] = "fetch"]
            /\ UNCHANGED outcome
       ELSE /\ Exit(t, "RecordingNotReady")
            /\ UNCHANGED attempt
    /\ UNCHANGED <<fixed_vars, PROCESSING, LOCK, WHISPER_LOCK, disk, polls, resp,
                   file_id, stage_vars>>

\* Sleep of a loop over range(1, MAX_RETRY + 2): one attempt more.
Sleep_OneMore(t) ==
    /\ pc[t] = "sleep"
    /\ IF attempt[t] <= MAX_RETRY
       THEN /\ attempt' = [attempt EXCEPT ![t] = @ + 1]
            /\ pc' = [pc EXCEPT ![t] = "fetch"]
            /\ UNCHANGED outcome
       ELSE /\ Exit(t, "RecordingNotReady")
            /\ UNCHANGED attempt
    /\ UNCHANGED <<fixed_vars, PROCESSING, LOCK, WHISPER_LOCK, disk, polls, resp,
                   file_id, stage_vars>>

\* process_call, lines 180 and 204, then 175 and 206-208: time.sleep returns;
\* the loop goes on with the next attempt, or it is exhausted and the job
\* returns because file_id is still None.
Sleep(t) ==
    /\ pc[t] = "sleep"
    /\ IF attempt[t] < MAX_RETRY
       THEN /\ attempt' = [attempt EXCEPT ![t] = @ + 1]
            /\ pc' = [pc EXCEPT ![t] = "fetch"]
            /\ UNCHANGED outcome
       ELSE /\ Exit(t, "RecordingNotReady")
            /\ UNCHANGED attempt
    /\ UNCHANGED <<fixed_vars, PROCESSING, LOCK, WHISPER_LOCK, disk, polls, resp,
                   file_id, stage_vars>>

\* process_call, lines 213-215, with download_call_audio and
\* BitrixClient.download_audio.  The download fails before the file is opened
\* (no URL, HTTP error, wrong content type), breaks while the file is being
\* written, or completes with some size; a completed file below ClientMinSize
\* is rejected.  Every failure returns "" and leaves what was written.
Download(t) ==
    /\ pc[t] = "download"
    /\ calls' = Called(t, "download")
    /\ \E kind \in {"nofile", "broken", "complete"} :
        \E s \in DownloadSizes :
            LET f == file_id[t]
                path == IF kind = "complete" /\ s >= ClientMinSize THEN f ELSE EmptyPath
            IN  /\ disk' = IF kind = "nofile" THEN disk ELSE [disk EXCEPT ![f] = s]
                /\ audio_path' = [audio_path EXCEPT ![t] = path]
                /\ IF path = EmptyPath
                   THEN Exit(t, "AudioUnavailable")
                   ELSE /\ pc' = [pc EXCEPT ![t] = "size_check"]
                        /\ UNCHANGED outcome
    /\ LeaveLoop(t)
    /\ UNCHANGED <<fixed_vars, PROCESSING, LOCK, WHISPER_LOCK, resp, file_id, owner,
                   size_ok, whisper, full_text>>

\* SizeCheck that repeats the client's threshold instead of its own.
SizeCheck_ClientMin(t) ==
    /\ pc[t] = "size_check"
    /\ LET size == disk[audio_path[t]]
       IN  IF size = None
           THEN /\ Exit(t, "Exception")
                /\ UNCHANGED size_ok
           ELSE IF size < ClientMinSize
           THEN /\ Exit(t, "AudioUnavailable")
                /\ UNCHANGED size_ok
           ELSE /\ pc' = [pc EXCEPT ![t] = "whisper_acquire"]
                /\ size_ok' = [size_ok EXCEPT ![t] = TRUE]
                /\ UNCHANGED outcome
    /\ UNCHANGED <<fixed_vars, PROCESSING, LOCK, WHISPER_LOCK, disk, loop_vars, owner,
                   audio_path, whisper, full_text, calls>>

\* process_call, lines 217-219: os.path.getsize raises when the file is gone,
\* and a file below MinAudioSize ends the job.
SizeCheck(t) ==
    /\ pc[t] = "size_check"
    /\ LET size == disk[audio_path[t]]
       IN  IF size = None
           THEN /\ Exit(t, "Exception")
                /\ UNCHANGED size_ok
           ELSE IF size < MinAudioSize
           THEN /\ Exit(t, "AudioUnavailable")
                /\ UNCHANGED size_ok
           ELSE /\ pc' = [pc EXCEPT ![t] = "whisper_acquire"]
                /\ size_ok' = [size_ok EXCEPT ![t] = TRUE]
                /\ UNCHANGED outcome
    /\ UNCHANGED <<fixed_vars, PROCESSING, LOCK, WHISPER_LOCK, disk, loop_vars, owner,
                   audio_path, whisper, full_text, calls>>

\* WhisperAcquire without the lock: the call of line 226 is entered at once.
WhisperAcquire_NoLock(t) ==
    /\ pc[t] = "whisper_acquire"
    /\ WHISPER_LOCK' = t
    /\ pc' = [pc EXCEPT ![t] = "transcribe"]
    /\ UNCHANGED <<fixed_vars, PROCESSING, LOCK, disk, loop_vars, stage_vars, outcome>>

\* process_call, line 225: with WHISPER_LOCK (acquire).
WhisperAcquire(t) ==
    /\ pc[t] = "whisper_acquire"
    /\ WHISPER_LOCK = None
    /\ WHISPER_LOCK' = t
    /\ pc' = [pc EXCEPT ![t] = "transcribe"]
    /\ UNCHANGED <<fixed_vars, PROCESSING, LOCK, disk, loop_vars, stage_vars, outcome>>

\* Transcribe without the try/except of lines 224-235: an exception of the
\* transcriber reaches the outer handler and ends the job.
Transcribe_NoExcept(t) ==
    /\ pc[t] = "transcribe"
    /\ calls' = Called(t, "transcribe")
    /\ WHISPER_LOCK' = None
    /\ \E r \in TranscribeResults :
        /\ disk[audio_path[t]] = None => r = "empty"
        /\ whisper' = [whisper EXCEPT ![t] = r]
        /\ full_text' = [full_text EXCEPT ![t] = IF r = "ok" THEN "text" ELSE ""]
        /\ IF r = "raise"
           THEN Exit(t, "Exception")
           ELSE /\ pc' = [pc EXCEPT ![t] = "diarize"]
                /\ UNCHANGED outcome
    /\ UNCHANGED <<fixed_vars, PROCESSING, LOCK, disk, loop_vars, owner, audio_path,
                   size_ok>>

\* Transcribe with the lock taken for the rest of the job: the call returns
\* and WHISPER_LOCK stays held.
Transcribe_HoldLock(t) ==
    /\ pc[t] = "transcribe"
    /\ calls' = Called(t, "transcribe")
    /\ \E r \in TranscribeResults :
        /\ disk[audio_path[t]] = None => r = "empty"
        /\ whisper' = [whisper EXCEPT ![t] = r]
        /\ full_text' = [full_text EXCEPT ![t] = IF r = "ok" THEN "text" ELSE ""]
    /\ pc' = [pc EXCEPT ![t] = "diarize"]
    /\ UNCHANGED <<fixed_vars, PROCESSING, LOCK, WHISPER_LOCK, disk, loop_vars, owner,
                   audio_path, size_ok, outcome>>

\* Transcribe whose lock is released by hand after the call: an exception of
\* the transcriber passes the release and WHISPER_LOCK stays held.
Transcribe_RaiseKeepsLock(t) ==
    /\ pc[t] = "transcribe"
    /\ calls' = Called(t, "transcribe")
    /\ \E r \in TranscribeResults :
        /\ disk[audio_path[t]] = None => r = "empty"
        /\ whisper' = [whisper EXCEPT ![t] = r]
        /\ full_text' = [full_text EXCEPT ![t] = IF r = "ok" THEN "text" ELSE ""]
        /\ WHISPER_LOCK' = IF r = "raise" THEN WHISPER_LOCK ELSE None
    /\ pc' = [pc EXCEPT ![t] = "diarize"]
    /\ UNCHANGED <<fixed_vars, PROCESSING, LOCK, disk, loop_vars, owner, audio_path,
                   size_ok, outcome>>

\* process_call, lines 226-235, with WhisperEngine.transcribe_segments: the
\* call returns segments, returns [] (a missing or unreadable file, a model
\* error caught inside) or raises; the with block releases WHISPER_LOCK in
\* every case and the except clause substitutes empty text.
Transcribe(t) ==
    /\ pc[t] = "transcribe"
    /\ calls' = Called(t, "transcribe")
    /\ WHISPER_LOCK' = None
    /\ \E r \in TranscribeResults :
        /\ disk[audio_path[t]] = None => r = "empty"
        /\ whisper' = [whisper EXCEPT ![t] = r]
        /\ full_text' = [full_text EXCEPT ![t] = IF r = "ok" THEN "text" ELSE ""]
    /\ pc' = [pc EXCEPT ![t] = "diarize"]
    /\ UNCHANGED <<fixed_vars, PROCESSING, LOCK, disk, loop_vars, owner, audio_path,
                   size_ok, outcome>>

\* Diarize that goes straight to the owner resolution, past the analysis.
Diarize_SkipAnalyze(t) ==
    /\ pc[t] = "diarize"
    /\ calls' = Called(t, "diarize")
    /\ pc' = [pc EXCEPT ![t] = "resolve"]
    /\ UNCHANGED <<fixed_vars, PROCESSING, LOCK, WHISPER_LOCK, disk, loop_vars, owner,
                   audio_path, size_ok, whisper, full_text, outcome>>

\* process_call, line 240: SimpleFallbackDiarizer.diarize catches its own
\* errors and always returns one segment.
Diarize(t) ==
    /\ pc[t] = "diarize"
    /\ calls' = Called(t, "diarize")
    /\ pc' = [pc EXCEPT ![t] = "analyze"]
    /\ UNCHANGED <<fixed_vars, PROCESSING, LOCK, WHISPER_LOCK, disk, loop_vars, owner,
                   audio_path, size_ok, whisper, full_text, outcome>>

\* process_call, lines 242-250: script choice, interests, informativeness.
Analyze(t) ==
    /\ pc[t] = "analyze"
    /\ pc' = [pc EXCEPT ![t] = "resolve"]
    /\ UNCHANGED <<fixed_vars, PROCESSING, LOCK, WHISPER_LOCK, disk, loop_vars,
                   stage_vars, outcome>>

\* Resolve that treats a record without an owner as an error.
Resolve_NoneRaises(t) ==
    /\ pc[t] = "resolve"
    /\ \E o \in OwnerKinds :
        /\ owner' = [owner EXCEPT ![t] = o]
        /\ CASE o \in {"none", "badtype"} -> Exit(t, "Exception")
             [] o = "ok" -> /\ pc' = [pc EXCEPT ![t] = "post"]
                            /\ UNCHANGED outcome
    /\ UNCHANGED <<fixed_vars, PROCESSING, LOCK, WHISPER_LOCK, disk, loop_vars,
                   audio_path, size_ok, whisper, full_text, calls>>

\* process_call, lines 255-294: owner resolution over the linkage fields of
\* the fetched record, read here for the first time; without an owner the job
\* returns, and an owner type that is not a number makes int() raise.
Resolve(t) ==
    /\ pc[t] = "resolve"
    /\ \E o \in OwnerKinds :
        /\ owner' = [owner EXCEPT ![t] = o]
        /\ CASE o = "none" -> Exit(t, "OwnerUnresolved")
             [] o = "badtype" -> Exit(t, "Exception")
             [] o = "ok" -> /\ pc' = [pc EXCEPT ![t] = "post"]
                            /\ UNCHANGED outcome
    /\ UNCHANGED <<fixed_vars, PROCESSING, LOCK, WHISPER_LOCK, disk, loop_vars,
                   audio_path, size_ok, whisper, full_text, calls>>

\* Post that repeats a comment the CRM did not acknowledge.
Post_Retry(t) ==
    /\ pc[t] = "post"
    /\ calls' = Called(t, "post")
    /\ \/ Exit(t, "Reported")
       \/ UNCHANGED <<pc, outcome>>
    /\ UNCHANGED <<fixed_vars, PROCESSING, LOCK, WHISPER_LOCK, disk, loop_vars, owner,
                   audio_path, size_ok, whisper, full_text>>

\* Post inside the loop over the bindings: one comment for each of two owners.
Post_PerBinding(t) ==
    /\ pc[t] = "post"
    /\ calls' = [calls EXCEPT ![t].post = @ + 2]
    /\ Exit(t, "Reported")
    /\ UNCHANGED <<fixed_vars, PROCESSING, LOCK, WHISPER_LOCK, disk, loop_vars, owner,
                   audio_path, size_ok, whisper, full_text>>

\* process_call, lines 304-322: client.add_comment (it returns {} on failure
\* and never raises), then the end of the try block.
Post(t) ==
    /\ pc[t] = "post"
    /\ calls' = Called(t, "post")
    /\ Exit(t, "Reported")
    /\ UNCHANGED <<fixed_vars, PROCESSING, LOCK, WHISPER_LOCK, disk, loop_vars, owner,
                   audio_path, size_ok, whisper, full_text>>

\* process_call, line 328: with LOCK (acquire) in the finally block.
FinallyAcquire(t) ==
    /\ pc[t] = "finally"
    /\ LOCK = None
    /\ LOCK' = t
    /\ pc' = [pc EXCEPT ![t] = "finally_discard"]
    /\ LeaveLoop(t)
    /\ UNCHANGED <<fixed_vars, PROCESSING, WHISPER_LOCK, disk, resp, file_id, stage_vars,
                   outcome>>

\* FinallyDiscard that discards only after a job that ran to its end.
FinallyDiscard_OnSuccess(t) ==
    /\ pc[t] = "finally_discard"
    /\ PROCESSING' = IF outcome[t] = "Reported"
                     THEN PROCESSING \ {activity_id[t]}
                     ELSE PROCESSING
    /\ LOCK' = None
    /\ pc' = [pc EXCEPT ![t] = "cleanup"]
    /\ UNCHANGED <<fixed_vars, WHISPER_LOCK, disk, loop_vars, stage_vars, outcome>>

\* process_call, line 329, under LOCK: PROCESSING.discard(activity_id).
FinallyDiscard(t) ==
    /\ pc[t] = "finally_discard"
    /\ PROCESSING' = PROCESSING \ {activity_id[t]}
    /\ LOCK' = None
    /\ pc' = [pc EXCEPT ![t] = "cleanup"]
    /\ UNCHANGED <<fixed_vars, WHISPER_LOCK, disk, loop_vars, stage_vars, outcome>>

\* Cleanup that submits the call again after a job that ended by an exception.
Cleanup_Resubmit(t) ==
    /\ pc[t] = "cleanup"
    /\ disk' = IF audio_path[t] \notin {None, EmptyPath} /\ disk[audio_path[t]] # None
               THEN [disk EXCEPT ![audio_path[t]] = None]
               ELSE disk
    /\ pc' = [pc EXCEPT ![t] = IF outcome[t] = "Exception" THEN "gate" ELSE "done"]
    /\ UNCHANGED <<fixed_vars, PROCESSING, LOCK, WHISPER_LOCK, loop_vars, stage_vars,
                   outcome>>

\* process_call, lines 331-337: the file is removed when audio_path is
\* neither None nor "" and the file exists.
Cleanup(t) ==
    /\ pc[t] = "cleanup"
    /\ disk' = IF audio_path[t] \notin {None, EmptyPath} /\ disk[audio_path[t]] # None
               THEN [disk EXCEPT ![audio_path[t]] = None]
               ELSE disk
    /\ pc' = [pc EXCEPT ![t] = "done"]
    /\ UNCHANGED <<fixed_vars, PROCESSING, LOCK, WHISPER_LOCK, loop_vars, stage_vars,
                   outcome>>

Next ==
    \/ \E c \in CallIds : Webhook(c)
    \/ \E t \in Threads : GateAcquire(t)
    \/ \E t \in Threads : GateCheck(t)
    \/ \E t \in Threads : Fetch(t)
    \/ \E t \in Threads : Sleep(t)
    \/ \E t \in Threads : Download(t)
    \/ \E t \in Threads : SizeCheck(t)
    \/ \E t \in Threads : WhisperAcquire(t)
    \/ \E t \in Threads : Transcribe(t)
    \/ \E t \in Threads : Diarize(t)
    \/ \E t \in Threads : Analyze(t)
    \/ \E t \in Threads : Resolve(t)
    \/ \E t \in Threads : Post(t)
    \/ \E t \in Threads : FinallyAcquire(t)
    \/ \E t \in Threads : FinallyDiscard(t)
    \/ \E t \in Threads : Cleanup(t)

Spec == Init /\ [][Next]_vars

\* ------------------------------------------------------------------ claims

\* Positions between PROCESSING.add (line 162) and PROCESSING.discard (329).
InFlightPcs == {"fetch", "sleep", "download", "size_check", "whisper_acquire",
                "transcribe", "diarize", "analyze", "resolve", "post", "finally",
                "finally_discard"}
\* Positions of the finally block and after it.
FinalPcs == {"finally", "finally_discard", "cleanup", "done"}

InFlight(t) == pc[t] \in InFlightPcs
\* The submission passed the dedup gate (now or earlier).
Admitted(t) == pc[t] \in InFlightPcs \cup {"cleanup", "done"} /\ outcome[t] # "duplicate"
Finished(t) == pc[t] = "done"

AdmittedFor(c) == {t \in Threads : activity_id[t] = c /\ Admitted(t)}
ReportsFor(c) == {t \in Threads : activity_id[t] = c /\ calls[t].post > 0}

\* C1: of the submissions of one call id at most one is between the dedup gate
\* and the release of the id at any time, and a submission rejected at the
\* gate ends at once without having made any external call.
C1_DedupGate ==
    /\ \A t, u \in Threads :
          t # u /\ activity_id[t] = activity_id[u] /\ InFlight(t) => ~InFlight(u)
    /\ \A t \in Threads :
          outcome[t] = "duplicate" => Finished(t) /\ calls[t] = NoCalls /\ polls[t] = 0

\* C1 witness: one job is in the pipeline and an overlapping submission of the
\* same call id has been rejected.
C1_Witness ==
    \E t, u \in Threads :
        /\ t # u /\ activity_id[t] = activity_id[u]
        /\ pc[t] = "transcribe"
        /\ outcome[u] = "duplicate"

\* C2 as stated: for one call id the report is posted at most once over all
\* submissions, also those that arrive after an earlier job ended.
C2_PostedOnceEver ==
    \A c \in CallIds : Cardinality(ReportsFor(c)) <= 1

\* C2 amended: every submission that passes the gate runs each stage and posts
\* at most once, so a call id has no more reports than admitted submissions,
\* and a second submission of the id is admitted only after the earlier job
\* has released it.
C2_OncePerAdmission ==
    /\ \A t \in Threads :
          /\ calls[t].download <= 1 /\ calls[t].transcribe <= 1
          /\ calls[t].diarize <= 1 /\ calls[t].post <= 1
          /\ calls[t].post > 0 => Admitted(t)
    /\ \A c \in CallIds :
          Cardinality(AdmittedFor(c)) > 1 =>
              \E t \in AdmittedFor(c) : pc[t] \in {"cleanup", "done"}

\* C2 witness: two submissions of one call id have both posted a report.
C2_Witness ==
    \E c \in CallIds : Cardinality(ReportsFor(c)) = 2

\* C3: at most one job is inside the transcription call, and it is the holder
\* of WHISPER_LOCK.
C3_OneTranscription ==
    \A t, u \in Threads :
        pc[t] = "transcribe" /\ pc[u] = "transcribe" => t = u /\ WHISPER_LOCK = t

\* C3 witness: one job transcribes while another waits for the lock.
C3_Witness ==
    \E t, u \in Threads : pc[t] = "transcribe" /\ pc[u] = "whisper_acquire"

\* C4 as stated: once every started job has ended, no audio file is left in
\* the temporary directory.
C4_NoAudioLeft ==
    (\A t \in Threads : pc[t] \in {"idle", "done"}) => \A f \in FileIds : disk[f] = None

\* C5: a call id is in PROCESSING only while a job for it is between the gate
\* and its discard; after a job has ended, by any exit path, its id is in the
\* set only if another job for the id is in flight.
C5_ReleasedOnExit ==
    /\ \A c \in PROCESSING : \E t \in Threads : activity_id[t] = c /\ InFlight(t)
    /\ (\A t \in Threads : pc[t] \in {"idle", "done"}) => PROCESSING = {}

\* C5 witness: a job that ended by an exception and one that ended by an
\* undersized download have both left the set empty.
C5_Witness ==
    /\ \E t \in Threads : Finished(t) /\ outcome[t] = "Exception"
    /\ \E t \in Threads : Finished(t) /\ outcome[t] = "AudioUnavailable"
    /\ PROCESSING = {}

\* Thread t takes a step.
Steps(t) == pc'[t] # pc[t]

\* C6: while fewer than MAX_RETRY polls have been made and none of them brought
\* a recording, the job polls again; the poll that brings the recording is the
\* last one, so a recording on poll N (1 <= N <= MAX_RETRY) takes the job out
\* of the loop after exactly N fetches; and a job whose download passed the
\* size check enters the transcription stage.
C6_PollUntilRecording ==
    [][\A t \in Threads :
        /\ pc[t] = "sleep" /\ Steps(t) /\ polls[t] < MAX_RETRY =>
               pc'[t] = "fetch" /\ attempt'[t] = polls[t] + 1
        /\ pc[t] = "fetch" /\ Steps(t) /\ resp'[t] = "rec" =>
               /\ pc'[t] = "download" /\ file_id'[t] # None
               /\ polls'[t] = attempt[t] /\ attempt[t] <= MAX_RETRY
        /\ pc'[t] = "download" => resp'[t] = "rec" /\ polls'[t] = attempt'[t]
        /\ size_ok'[t] /\ pc'[t] \notin {"whisper_acquire", "transcribe"} =>
               calls'[t].transcribe = 1
      ]_vars

\* C6 witness: for one job the recording came with poll MAX_RETRY, after
\* MAX_RETRY - 1 polls without one, and the job is out of the loop; another
\* job has passed the size check and is in the transcription call.
C6_Witness ==
    \E t, u \in Threads :
        /\ pc[t] = "download" /\ polls[t] = MAX_RETRY
        /\ pc[u] = "transcribe" /\ size_ok[u]

\* C7: a job ends with RecordingNotReady exactly when MAX_RETRY polls brought
\* no recording: it has then made MAX_RETRY fetches, makes no further one, and
\* neither downloads, transcribes, diarizes nor posts.
C7_RetriesExhausted ==
    \A t \in Threads :
        /\ outcome[t] = "RecordingNotReady" =>
              /\ pc[t] \in FinalPcs
              /\ calls[t] = NoCalls
              /\ resp[t] \in {"none", "norec"}
              /\ pc[t] = "finally" => polls[t] = MAX_RETRY /\ attempt[t] = MAX_RETRY
        /\ pc[t] \in {"fetch", "sleep"} => polls[t] <= MAX_RETRY /\ attempt[t] <= MAX_RETRY

\* C7 witness: a job has ended after MAX_RETRY polls without a recording.
C7_Witness ==
    \E t \in Threads : Finished(t) /\ outcome[t] = "RecordingNotReady"

\* C8: after a fetch that brought a record which is not a call, the job is in
\* its finally block or behind it: it polls no more, and it neither downloads,
\* transcribes, diarizes nor posts; the job ends as NotACall, not by the
\* exception handler.
C8_NotACallAborts ==
    \A t \in Threads :
        resp[t] = "notcall" =>
            /\ pc[t] \in FinalPcs
            /\ outcome[t] = "NotACall"
            /\ calls[t] = NoCalls
            /\ pc[t] = "finally" => polls[t] = attempt[t]

\* C8 witness: a job has ended on a record that is not a call, fetched after
\* an earlier poll without a recording.
C8_Witness ==
    \E t \in Threads : resp[t] = "notcall" /\ pc[t] = "finally" /\ polls[t] = 2

\* C9: a download that returns no path, or a file below MinAudioSize at the
\* size check, ends the job as AudioUnavailable; a job downloads at most once,
\* and a job that ended this way has downloaded exactly once and has neither
\* transcribed, diarized nor posted.
C9_AudioUnavailable ==
    [][\A t \in Threads :
        /\ pc[t] = "download" /\ Steps(t) /\ audio_path'[t] = EmptyPath =>
               pc'[t] = "finally" /\ outcome'[t] = "AudioUnavailable"
        /\ pc[t] = "size_check" /\ Steps(t) /\ disk[audio_path[t]] # None
             /\ disk[audio_path[t]] < MinAudioSize =>
               pc'[t] = "finally" /\ outcome'[t] = "AudioUnavailable"
        /\ calls'[t].download <= 1
        /\ outcome'[t] = "AudioUnavailable" =>
               /\ pc'[t] \in FinalPcs
               /\ calls'[t] = [NoCalls EXCEPT !.download = 1]
      ]_vars

\* C9 witness: one job has ended on a file that the client accepted and the
\* size check rejected, another on a download that returned no path.
C9_Witness ==
    \E t, u \in Threads :
        /\ Finished(t) /\ outcome[t] = "AudioUnavailable" /\ audio_path[t] \in FileIds
        /\ Finished(u) /\ outcome[u] = "AudioUnavailable" /\ audio_path[u] = EmptyPath

C11_OwnerUnresolved ==
    [][\A t \in Threads :
        /\ owner'[t] = "none" =>
               /\ pc'[t] \in FinalPcs
               /\ outcome'[t] = "OwnerUnresolved"
               /\ calls'[t].post = 0
               /\ Finished(t)' /\ activity_id'[t] \in PROCESSING' =>
                      \E u \in Threads \ {t} : activity_id'[u] = activity_id'[t] /\ InFlight(u)'
        /\ owner[t] = "none" /\ pc[t] = "cleanup" /\ Steps(t) =>
               pc'[t] = "done" /\ disk'[audio_path[t]] = None
      ]_vars

\* C11 witness: a job without an owner has ended; nothing is in flight and
\* no file is on the disk.
C11_Witness ==
    \E t \in Threads :
        /\ Finished(t) /\ owner[t] = "none" /\ audio_path[t] \in FileIds
        /\ PROCESSING = {} /\ disk[audio_path[t]] = None

\* C12: a job posts at most one comment, and the comment is posted from the
\* owner resolution, which follows the analysis, which follows the
\* diarization, after the one download and the one transcription of the job.
C12_PostOnceAtEnd ==
    [][\A t \in Threads :
        /\ calls'[t].post <= 1
        /\ pc'[t] = "post" \/ calls'[t].post > 0 =>
               /\ calls'[t].download = 1 /\ size_ok'[t]
               /\ calls'[t].transcribe = 1 /\ whisper'[t] # "none"
               /\ calls'[t].diarize = 1
               /\ owner'[t] = "ok"
        /\ Steps(t) /\ pc'[t] = "post" => pc[t] = "resolve"
        /\ Steps(t) /\ pc'[t] = "resolve" => pc[t] = "analyze"
        /\ Steps(t) /\ pc'[t] = "analyze" => pc[t] = "diarize"
        /\ Steps(t) /\ calls'[t].post # calls[t].post => pc[t] = "post"
      ]_vars

\* C12 witness: a job with a transcript has posted its comment and ended.
C12_Witness ==
    \E t \in Threads :
        Finished(t) /\ outcome[t] = "Reported" /\ whisper[t] = "ok" /\ calls[t].post = 1

\* C13: every started job was acknowledged with 200 when it started and the
\* answer never changes, whatever the job does; a job in which a stage raised
\* is in its finally block or behind it, with the exception handled.
C13_AckIndependent ==
    [][\A t \in Threads :
        /\ pc'[t] # "idle" => ack'[t] = StatusOk
        /\ ack[t] # None => ack'[t] = ack[t]
        /\ outcome'[t] = "Exception" => pc'[t] \in FinalPcs
      ]_vars

\* C13 witness: an acknowledged job has ended by the exception handler after
\* its transcription.
C13_Witness ==
    \E t \in Threads :
        Finished(t) /\ outcome[t] = "Exception" /\ owner[t] = "badtype"
            /\ ack[t] = StatusOk

\* Positions at which a thread holds LOCK, and at which it holds WHISPER_LOCK.
LockPcs == {"gate_check", "finally_discard"}
WhisperLockPcs == {"transcribe"}
\* Positions inside a blocking call: fetch, sleep, download, transcription,
\* diarization, comment post.
BlockingPcs == {"fetch", "sleep", "download", "transcribe", "diarize", "post"}

\* C21 as stated: a job that holds LOCK or WHISPER_LOCK is inside no blocking
\* call, the transcription included.
C21_NoLockAcrossBlocking ==
    \A t \in Threads : LOCK = t \/ WHISPER_LOCK = t => pc[t] \notin BlockingPcs

\* C21 amended: LOCK is held exactly in the check-and-add of the gate and in
\* the discard of the finally block, never inside a blocking call;
\* WHISPER_LOCK is held exactly during the transcription call, and inside no
\* other blocking call.
C21_LocksShortHeld ==
    /\ LOCK \in Threads \cup {None}
    /\ WHISPER_LOCK \in Threads \cup {None}
    /\ \A t \in Threads :
          /\ LOCK = t <=> pc[t] \in LockPcs
          /\ WHISPER_LOCK = t <=> pc[t] \in WhisperLockPcs
          /\ LOCK = t => pc[t] \notin BlockingPcs
          /\ WHISPER_LOCK = t => pc[t] \notin BlockingPcs \ {"transcribe"}

\* C21 witness: one job holds LOCK in its discard while another holds
\* WHISPER_LOCK inside the transcription call.
C21_Witness ==
    \E t, u \in Threads :
        /\ LOCK = t /\ pc[t] = "finally_discard"
        /\ WHISPER_LOCK = u /\ pc[u] = "transcribe"

\* The next step of thread t in process_call.
StepOf(t) ==
    \/ GateAcquire(t) \/ GateCheck(t) \/ Fetch(t) \/ Sleep(t) \/ Download(t)
    \/ SizeCheck(t) \/ WhisperAcquire(t) \/ Transcribe(t) \/ Diarize(t) \/ Analyze(t)
    \/ Resolve(t) \/ Post(t) \/ FinallyAcquire(t) \/ FinallyDiscard(t) \/ Cleanup(t)
\* Thread t has a next step and cannot take it.
Waits(t) == pc[t] \notin {"idle", "done"} /\ ~ENABLED StepOf(t)
\* Positions of a job that sleeps, downloads, diarizes, analyzes or reports.
QuietPcs == {"sleep", "download", "size_check", "diarize", "analyze", "resolve", "post"}

\* C22 as stated: WHISPER_LOCK is the only point where a job waits for
\* another: a job that cannot take its next step is at the acquisition of
\* WHISPER_LOCK.
C22_OnlyWhisperBlocks ==
    \A u \in Threads : Waits(u) => pc[u] = "whisper_acquire"

\* C22 amended: a job waits only for a lock another job holds inside its critical
\* section: for WHISPER_LOCK, held by a job inside the transcription call, or
\* for LOCK, held by a job in the check of the gate or in the discard; a job
\* that sleeps, downloads, diarizes, analyzes or reports holds no lock and
\* keeps no other job from its next step.
C22_OnlyLocksBlock ==
    /\ \A u \in Threads :
          Waits(u) =>
              \E t \in Threads \ {u} :
                  \/ pc[u] = "whisper_acquire" /\ WHISPER_LOCK = t /\ pc[t] = "transcribe"
                  \/ pc[u] \in {"gate", "finally"} /\ LOCK = t /\ pc[t] \in LockPcs
    /\ \A t \in Threads : pc[t] \in QuietPcs => LOCK # t /\ WHISPER_LOCK # t
    /\ \A t, u \in Threads :
          (/\ t # u /\ pc[t] \in QuietPcs /\ pc[u] \notin {"idle", "done"}
           /\ LOCK \in {None, t, u} /\ WHISPER_LOCK \in {None, t, u}) => ~Waits(u)

\* C22 witness: one job sleeps in the polling loop while a job of another call
\* id is inside the transcription call.
C22_Witness ==
    \E t, u \in Threads :
        /\ activity_id[t] # activity_id[u]
        /\ pc[t] = "sleep" /\ pc[u] = "transcribe"

\* The stages of a job: 0 not submitted, 1 Pending, 2 Polling, 3 Downloading,
\* 4 Transcribing, 5 Diarizing, 6 Analyzing, 7 Reporting, and Terminal (the
\* finally block and after it) for Done and for the failed or aborted job.
Terminal == 8
StageOf(p) ==
    CASE p = "idle" -> 0
      [] p \in {"gate", "gate_check"} -> 1
      [] p \in {"fetch", "sleep"} -> 2
      [] p \in {"download", "size_check"} -> 3
      [] p \in {"whisper_acquire", "transcribe"} -> 4
      [] p = "diarize" -> 5
      [] p = "analyze" -> 6
      [] p \in {"resolve", "post"} -> 7
      [] OTHER -> Terminal
\* The positions in program order.
PcOrder == <<"idle", "gate", "gate_check", "fetch", "sleep", "download", "size_check",
             "whisper_acquire", "transcribe", "diarize", "analyze", "resolve", "post",
             "finally", "finally_discard", "cleanup", "done">>
PosOf(p) == CHOOSE i \in DOMAIN PcOrder : PcOrder[i] = p

\* C23: every step of a job stays in its stage, enters the next stage or
\* enters the terminal stage; only the polling loop goes back (from its sleep
\* to its fetch), so no other stage is entered twice; a terminal job stays
\* terminal and makes no external call.
C23_StageOrder ==
    [][\A t \in Threads :
        Steps(t) =>
            /\ StageOf(pc'[t]) \in {StageOf(pc[t]), StageOf(pc[t]) + 1, Terminal}
            /\ PosOf(pc'[t]) > PosOf(pc[t]) \/ (pc[t] = "sleep" /\ pc'[t] = "fetch")
            /\ StageOf(pc[t]) = Terminal =>
                   /\ StageOf(pc'[t]) = Terminal
                   /\ calls'[t] = calls[t]
                   /\ polls'[t] <= polls[t]
      ]_vars

\* C23 witness: one job went through every stage and is Done, another left
\* from the polling stage and is terminal too.
C23_Witness ==
    \E t, u \in Threads :
        /\ Finished(t) /\ outcome[t] = "Reported"
        /\ calls[t] = [download |-> 1, transcribe |-> 1, diarize |-> 1, post |-> 1]
        /\ Finished(u) /\ outcome[u] = "RecordingNotReady"

\* C24: a job downloads, transcribes, diarizes and posts at most once each;
\* once it has an outcome the outcome stays, it makes no further external call
\* and never leaves the finally block for the pipeline; and a job starts only
\* by an event the webhook accepts.
C24_NoRetry ==
    [][\A t \in Threads :
        /\ calls'[t].download <= 1 /\ calls'[t].transcribe <= 1
        /\ calls'[t].diarize <= 1 /\ calls'[t].post <= 1
        /\ outcome[t] # "running" =>
               /\ outcome'[t] = outcome[t]
               /\ calls'[t] = calls[t]
               /\ pc'[t] \in FinalPcs
        /\ pc[t] \in FinalPcs => pc'[t] \in FinalPcs
        /\ pc[t] = "done" => pc'[t] = "done"
        /\ pc[t] = "idle" /\ pc'[t] # "idle" =>
               ack[t] = None /\ ack'[t] = StatusOk /\ pc'[t] = "gate"
      ]_vars

\* C24 witness: a job ended by an exception after its one download and one
\* transcription, and a later event for the same call id started a new job.
C24_Witness ==
    \E t, u \in Threads :
        /\ t # u /\ activity_id[t] = activity_id[u]
        /\ Finished(t) /\ outcome[t] = "Exception"
        /\ calls[t].download = 1 /\ calls[t].transcribe = 1
        /\ pc[u] = "fetch" /\ ack[u] = StatusOk

\* C30: the step of a submission whose call id is already in PROCESSING ends
\* the submission at once and changes neither PROCESSING nor the disk, and the
\* submission has made and makes no external call; the rejected submission
\* never enters the finally block, so it discards nothing.
C30_DuplicateNoEffect ==
    [][\A t \in Threads :
        /\ pc[t] = "gate_check" /\ Steps(t) /\ activity_id[t] \in PROCESSING =>
               /\ pc'[t] = "done" /\ outcome'[t] = "duplicate"
               /\ PROCESSING' = PROCESSING
               /\ disk' = disk
               /\ calls' = calls /\ polls' = polls
        /\ outcome[t] = "duplicate" =>
               /\ pc[t] = "done" /\ pc'[t] = "done"
               /\ calls'[t] = NoCalls /\ polls'[t] = 0
               /\ audio_path'[t] = None
      ]_vars

\* C30 witness: a submission was rejected while the job of the same call id
\* had its file on the disk; the job is still in flight, its id is still in
\* PROCESSING and its file is still there.
C30_Witness ==
    \E t, u \in Threads :
        /\ t # u /\ activity_id[t] = activity_id[u]
        /\ outcome[u] = "duplicate" /\ Finished(u)
        /\ pc[t] = "diarize" /\ activity_id[t] \in PROCESSING
        /\ disk[audio_path[t]] # None

\* ------------------------------------------------------------- termination
\* Every thread the webhook started is scheduled again and again, and every
\* external call it is in returns or raises: a step of process_call that
\* stays possible is taken.  Nothing is assumed about the order in which a
\* lock is handed to the threads that wait for it.
FairSpec == Spec /\ \A t \in Threads : WF_vars(StepOf(t))

\* Every thread the webhook started has ended.
AllTerminated == \A t \in Threads : pc[t] \in {"idle", "done"}

\* C31: under fair scheduling every job that passed the dedup gate ends, the
\* jobs that wait for WHISPER_LOCK included, whatever the transcription of
\* the holder does; and whenever all submitted jobs have ended PROCESSING is
\* empty and WHISPER_LOCK and LOCK are free.
C31_Terminates ==
    /\ \A t \in Threads : Admitted(t) ~> Finished(t)
    /\ [](AllTerminated => PROCESSING = {} /\ WHISPER_LOCK = None /\ LOCK = None)

\* C31 witness: two jobs of different calls have passed the gate and ended;
\* the transcription of one raised, the other transcribed as well, and
\* nothing is in flight and no lock is held.
C31_Witness ==
    \E t, u \in Threads :
        /\ t # u /\ activity_id[t] # activity_id[u]
        /\ Finished(t) /\ Finished(u)
        /\ whisper[t] = "raise" /\ calls[u].transcribe = 1
        /\ PROCESSING = {} /\ WHISPER_LOCK = None

\* ------------------------------------------------------------- local files
\* Positions at which a job reads the file it downloaded: the size check
\* (line 217), the transcription (225-226) and the diarization (240).
UsingPcs == {"size_check", "whisper_acquire", "transcribe", "diarize"}
\* Job u is between its download and the end of its diarization of file f.
Using(u, f) == pc[u] \in UsingPcs /\ audio_path[u] = f

\* C32 as stated: while a job is checking the size of its local file,
\* transcribing it or diarizing it, no step of a job of another call writes
\* that file in a download or removes it in a cleanup.
C32_FilesNotShared ==
    [][\A t, u \in Threads : \A f \in FileIds :
          (t # u /\ activity_id[t] # activity_id[u] /\ Using(u, f) /\ pc'[t] # pc[t]) =>
              /\ disk'[f] = disk[f]
              /\ ~(pc[t] = "download" /\ audio_path'[t] = f)]_vars

\* ------------------------------------------------------------ fetch budget
\* C33: a job makes at most MAX_RETRY fetches whatever the fetches return:
\* every fetch is the one fetch of its attempt; a fetch without a record and
\* a call record without a recording both lead to the same sleep of the same
\* attempt; a fetch follows only the gate or the sleep after such a fetch
\* with an attempt left; and after a record with a recording identifier or
\* one that is not a call the job is out of the loop for good.
C33_FetchBudget ==
    [][\A t \in Threads :
        /\ polls'[t] <= MAX_RETRY
        /\ pc[t] = "fetch" /\ polls'[t] # polls[t] =>
               polls'[t] = polls[t] + 1 /\ polls'[t] = attempt[t]
        /\ pc[t] = "fetch" /\ polls'[t] # polls[t] /\ resp'[t] \in {"none", "norec"} =>
               pc'[t] = "sleep" /\ attempt'[t] = attempt[t] /\ file_id'[t] = None
        /\ pc'[t] = "fetch" /\ Steps(t) =>
               \/ pc[t] = "gate_check"
               \/ pc[t] = "sleep" /\ resp[t] \in {"none", "norec"} /\ attempt[t] < MAX_RETRY
        /\ resp'[t] \in {"rec", "notcall"} => pc'[t] \notin {"fetch", "sleep"}
      ]_vars

\* C33 witness: one job has used up its MAX_RETRY fetches, the last of which
\* brought no record, and another left the loop with the recording of its
\* first fetch.
C33_Witness ==
    \E t, u \in Threads :
        /\ pc[t] = "finally" /\ polls[t] = MAX_RETRY /\ resp[t] = "none"
        /\ outcome[t] = "RecordingNotReady"
        /\ pc[u] = "download" /\ polls[u] = 1 /\ resp[u] = "rec"

\* ------------------------------------------------------------ pure functions
\* The functions of the analysis are checked one by one: a specification draws
\* the argument in its initial state and its action applies the function.
\* Strings are sequences of characters.

\* The result slot before the function has been applied, and after.
Pending == [done |-> FALSE]
Result(v) == [done |-> TRUE, val |-> v]

\* str.lower on one character and on a string.
Lower(c) ==
    CASE c = "A" -> "a" [] c = "B" -> "b" [] c = "C" -> "c" [] c = "Vy" -> "vy"
      [] OTHER -> c
LowerStr(str) == [i \in DOMAIN str |-> Lower(str[i])]

\* str.strip: the string without its leading and trailing whitespace.
Strip(str) ==
    LET ink == {i \in DOMAIN str : str[i] # " "}
    IN  IF ink = {} THEN <<>>
        ELSE SubSeq(str, CHOOSE i \in ink : \A j \in ink : i <= j,
                         CHOOSE i \in ink : \A j \in ink : i >= j)

\* re.compile(re.escape(p), re.IGNORECASE).search(text) for a non-empty p, and
\* p.lower() in text.lower(): p occurs in text, letter case ignored.
Search(p, text) ==
    \E i \in 1..(Len(text) - Len(p) + 1) :
        SubSeq(LowerStr(text), i, i + Len(p) - 1) = LowerStr(p)

\* analyze_script_presence in which a blank phrase counts as missed.
RECURSIVE analyze_script_presence_KeepBlank(_, _)
analyze_script_presence_KeepBlank(text, required_phrases) ==
    IF required_phrases = <<>> THEN [found |-> <<>>, missed |-> <<>>]
    ELSE LET rest == analyze_script_presence_KeepBlank(
                         text, SubSeq(required_phrases, 1, Len(required_phrases) - 1))
             p == Strip(required_phrases[Len(required_phrases)])
         IN  IF p # <<>> /\ Search(p, Strip(text))
             THEN [rest EXCEPT !.found = Append(@, p)]
             ELSE [rest EXCEPT !.missed = Append(@, p)]

\* analyze_script_presence (src/core/analyzers.py 11-32): the phrases are taken
\* in order; a phrase that is empty after strip is skipped, any other goes,
\* stripped, to found or to missed.
RECURSIVE analyze_script_presence(_, _)
analyze_script_presence(text, required_phrases) ==
    IF required_phrases = <<>> THEN [found |-> <<>>, missed |-> <<>>]
    ELSE LET rest == analyze_script_presence(
                         text, SubSeq(required_phrases, 1, Len(required_phrases) - 1))
             p == Strip(required_phrases[Len(required_phrases)])
         IN  IF p = <<>> THEN rest
             ELSE IF Search(p, Strip(text))
             THEN [rest EXCEPT !.found = Append(@, p)]
             ELSE [rest EXCEPT !.missed = Append(@, p)]

\* Longest phrase list of a script in the checks.
MaxPhrases == 3

\* Phrases a script file can hold: blank ones, padded ones, either case.
Phrases == {<<>>, <<" ">>, <<"a">>, <<"A">>, <<"b">>, <<"c">>, <<" ", "a">>,
            <<"b", " ", "c">>}
\* Transcripts: empty, one word, several words, mixed case.
Texts == {<<>>, <<"a">>, <<"a", " ", "c">>, <<"A", " ", "B", " ", "C">>,
          <<" ", "c", "b", " ">>, <<"b", " ", "c", " ", "a">>}

\* All sequences over S of length at most n.
SeqsUpTo(S, n) == UNION {[1..k -> S] : k \in 0..n}

\* The service stands still while a pure function is checked.
InitPure(a) ==
    /\ InitService
    /\ arg = a
    /\ res = Pending

InitPresence ==
    \E text \in Texts, phrases \in SeqsUpTo(Phrases, MaxPhrases) :
        InitPure([text |-> text, phrases |-> phrases])

ApplyPresence ==
    /\ res = Pending
    /\ res' = Result(analyze_script_presence(arg.text, arg.phrases))
    /\ UNCHANGED <<service_vars, arg>>

SpecPresence == InitPresence /\ [][ApplyPresence]_vars

\* Elements of a sequence.
Range(f) == {f[i] : i \in DOMAIN f}
\* The phrases of a list that are not blank, stripped, in order.
RECURSIVE NonBlank(_)
NonBlank(phrases) ==
    IF phrases = <<>> THEN <<>>
    ELSE LET p == Strip(Head(phrases))
         IN  IF p = <<>> THEN NonBlank(Tail(phrases)) ELSE <<p>> \o NonBlank(Tail(phrases))

\* C15 as stated: found and missed partition the phrases of the script, so
\* that |found| + |missed| = |phrases|.
C15_PartitionsAllPhrases ==
    res.done => Len(res.val.found) + Len(res.val.missed) = Len(arg.phrases)

\* C15 amended: found and missed partition the phrases that are not blank
\* after strip: each occurrence of such a phrase is in found when it occurs in
\* the transcript with letter case ignored and in missed otherwise, in the
\* order of the script; blank phrases are in neither.
C15_PartitionsNonBlank ==
    res.done =>
        LET nb == NonBlank(arg.phrases)
            isFound(i) == Search(nb[i], arg.text)
            foundIdx == {i \in DOMAIN nb : isFound(i)}
            missedIdx == {i \in DOMAIN nb : ~isFound(i)}
        IN  /\ Len(res.val.found) = Cardinality(foundIdx)
            /\ Len(res.val.missed) = Cardinality(missedIdx)
            /\ Len(res.val.found) + Len(res.val.missed) = Len(nb)
            /\ Range(res.val.found) = {nb[i] : i \in foundIdx}
            /\ Range(res.val.missed) = {nb[i] : i \in missedIdx}
            /\ Range(res.val.found) \cap Range(res.val.missed) = {}

\* C15 witness: the phrases a, b, c on a transcript with a and c only give
\* found = a, c and missed = b.
C15_Witness ==
    /\ res.done
    /\ arg.phrases = << <<"a">>, <<"b">>, <<"c">> >>
    /\ arg.text = <<"a", " ", "c">>
    /\ res.val = [found |-> << <<"a">>, <<"c">> >>, missed |-> << <<"b">> >>]

\* ------------------------------------------------------ choose_best_script
\* Most scripts in the scripts file in the checks.
MaxScripts == 3

\* Phrase lists of the scripts: none, one, several, with a blank phrase, with
\* a padded phrase, with a phrase in the other case.
ScriptPhrases == {<<>>, << <<"a">> >>, << <<"c">> >>, << <<"a">>, <<"b">> >>,
                  << <<" ", "a">>, <<"C">> >>, << <<>>, <<"a">> >>,
                  << <<"b">>, <<"a">>, <<"c">>, <<"b", " ", "c">> >>}
Scripts == {[phrases |-> pl] : pl \in ScriptPhrases}

\* A score is the fraction <<numerator, denominator>>; the denominator is
\* positive. The floats of the code compare as the fractions do.
Greater(x, y) == x[1] * y[2] > y[1] * x[2]
ScoreOf(script, text) ==
    <<Len(analyze_script_presence(text, script.phrases).found),
      IF Len(script.phrases) > 1 THEN Len(script.phrases) ELSE 1>>

\* The state before the first script is looked at.
NoBest == [best_score |-> <<0, 1>>, best_script |-> None, best_result |-> None]

\* choose_best_script in which a script that equals the best score replaces it.
RECURSIVE choose_best_script_NotStrict(_, _)
choose_best_script_NotStrict(SCRIPTS, text) ==
    IF SCRIPTS = <<>> THEN NoBest
    ELSE LET prev == choose_best_script_NotStrict(
                         SubSeq(SCRIPTS, 1, Len(SCRIPTS) - 1), text)
             script == SCRIPTS[Len(SCRIPTS)]
             score == ScoreOf(script, text)
         IN  IF ~Greater(prev.best_score, score)
             THEN [best_score |-> score, best_script |-> Len(SCRIPTS),
                   best_result |-> analyze_script_presence(text, script.phrases)]
             ELSE prev

\* choose_best_script in which best_score starts below every score.
RECURSIVE choose_best_script_FromBelow(_, _)
choose_best_script_FromBelow(SCRIPTS, text) ==
    IF SCRIPTS = <<>>
    THEN [best_score |-> <<-1, 1>>, best_script |-> None, best_result |-> None]
    ELSE LET prev == choose_best_script_FromBelow(
                         SubSeq(SCRIPTS, 1, Len(SCRIPTS) - 1), text)
             script == SCRIPTS[Len(SCRIPTS)]
             score == ScoreOf(script, text)
         IN  IF Greater(score, prev.best_score)
             THEN [best_score |-> score, best_script |-> Len(SCRIPTS),
                   best_result |-> analyze_script_presence(text, script.phrases)]
             ELSE prev

\* choose_best_script (src/bitrix_main.py 120-136) over the scripts file
\* SCRIPTS: the scripts are taken in declaration order and one replaces the
\* best so far when its score is strictly greater; best_score starts at 0.
\* best_script is the position of the script in SCRIPTS, None when there is
\* none.
RECURSIVE choose_best_script(_, _)
choose_best_script(SCRIPTS, text) ==
    IF SCRIPTS = <<>> THEN NoBest
    ELSE LET prev == choose_best_script(SubSeq(SCRIPTS, 1, Len(SCRIPTS) - 1), text)
             script == SCRIPTS[Len(SCRIPTS)]
             score == ScoreOf(script, text)
         IN  IF Greater(score, prev.best_score)
             THEN [best_score |-> score, best_script |-> Len(SCRIPTS),
                   best_result |-> analyze_script_presence(text, script.phrases)]
             ELSE prev

InitBest ==
    \E text \in Texts, SCRIPTS \in SeqsUpTo(Scripts, MaxScripts) :
        InitPure([text |-> text, SCRIPTS |-> SCRIPTS])

ApplyBest ==
    /\ res = Pending
    /\ res' = Result(choose_best_script(arg.SCRIPTS, arg.text))
    /\ UNCHANGED <<service_vars, arg>>

SpecBest == InitBest /\ [][ApplyBest]_vars

\* Script i of the argument has the highest score, and is the first that has.
FirstHighest(i) ==
    /\ \A j \in DOMAIN arg.SCRIPTS :
           ~Greater(ScoreOf(arg.SCRIPTS[j], arg.text), ScoreOf(arg.SCRIPTS[i], arg.text))
    /\ \A j \in 1..(i - 1) :
           Greater(ScoreOf(arg.SCRIPTS[i], arg.text), ScoreOf(arg.SCRIPTS[j], arg.text))
Positive(i) == Greater(ScoreOf(arg.SCRIPTS[i], arg.text), <<0, 1>>)

\* C14 as stated: for every list of candidate scripts and every transcript
\* the selected script is the first declared among those of highest score.
C14_HighestSelected ==
    (res.done /\ arg.SCRIPTS # <<>>) =>
        /\ res.val.best_script \in DOMAIN arg.SCRIPTS
        /\ FirstHighest(res.val.best_script)

\* C14 amended: when some script scores above zero, the selected script is the
\* first declared among those of highest score, whatever the declaration
\* order; when every script scores zero, no script is selected.
C14_HighestPositiveSelected ==
    res.done =>
        IF \E i \in DOMAIN arg.SCRIPTS : Positive(i)
        THEN /\ res.val.best_script \in DOMAIN arg.SCRIPTS
             /\ FirstHighest(res.val.best_script)
             /\ res.val.best_result =
                    analyze_script_presence(
                        arg.text, arg.SCRIPTS[res.val.best_script].phrases)
        ELSE res.val.best_script = None

\* C14 witness: three scripts, the last two tie on the highest score, which is
\* above that of the first, and the second is selected.
C14_Witness ==
    /\ res.done
    /\ Len(arg.SCRIPTS) = 3
    /\ Greater(ScoreOf(arg.SCRIPTS[2], arg.text), ScoreOf(arg.SCRIPTS[1], arg.text))
    /\ Positive(1)
    /\ ScoreOf(arg.SCRIPTS[2], arg.text) = ScoreOf(arg.SCRIPTS[3], arg.text)
    /\ arg.SCRIPTS[2] # arg.SCRIPTS[3]
    /\ res.val.best_script = 2

\* Script i of the argument has no phrases.
ZeroPhrases(i) == Len(arg.SCRIPTS[i].phrases) = 0

\* The name process_call reports for the selected script (src/bitrix_main.py
\* 247): the script's own, "Ne opredeleno" when none was selected.
Undefined == "Ne opredeleno"
script_name(best_script) ==
    IF best_script # None THEN ToString(best_script) ELSE Undefined

\* C27 as stated: a script with zero phrases is never selected when another
\* candidate script exists, and it is selected when it is the only candidate.
C27_ZeroPhraseWinsAlone ==
    res.done =>
        \A i \in DOMAIN arg.SCRIPTS :
            ZeroPhrases(i) =>
                IF Len(arg.SCRIPTS) > 1 THEN res.val.best_script # i
                ELSE res.val.best_script = i

\* C27 amended: a script with zero phrases is never selected, whatever the
\* other candidates; when it is the only candidate no script is selected and
\* the report names the script as undefined.
C27_ZeroPhraseNeverWins ==
    res.done =>
        \A i \in DOMAIN arg.SCRIPTS :
            ZeroPhrases(i) =>
                /\ res.val.best_script # i
                /\ Len(arg.SCRIPTS) = 1 =>
                       /\ res.val.best_script = None
                       /\ res.val.best_result = None
                       /\ script_name(res.val.best_script) = Undefined

\* C27 witness: a script with zero phrases is the only candidate for a
\* transcript that is not empty, and no script is selected.
C27_Witness ==
    /\ res.done
    /\ Len(arg.SCRIPTS) = 1
    /\ ZeroPhrases(1)
    /\ arg.text # <<>>
    /\ res.val.best_script = None

\* ----------------------------------------------------- map_whisper_to_diar
\* Most diarization segments and most transcription segments in the checks.
MaxDiar == 2
MaxWhisper == 2

\* Time spans <<start, end>> of the segments: disjoint, nested, overlapping by
\* one and by two units, touching, of zero length, and with end before start.
Spans == {<<0, 2>>, <<1, 3>>, <<2, 4>>, <<0, 4>>, <<3, 3>>, <<4, 1>>}
\* Texts of the transcription segments, padded as the recogniser returns them.
WhisperTexts == {<<"a">>, <<" ", "b", " ">>}

DiarSegments == {[start |-> sp[1], end |-> sp[2], text |-> <<>>] : sp \in Spans}
WhisperSegments ==
    {[start |-> sp[1], end |-> sp[2], text |-> tx] : sp \in Spans, tx \in WhisperTexts}

Min(a, b) == IF a < b THEN a ELSE b
Max(a, b) == IF a > b THEN a ELSE b

\* _overlap (src/main.py 125-126).
_overlap(a_start, a_end, b_start, b_end) ==
    Max(0, Min(a_end, b_end) - Max(a_start, b_start))

\* str.rstrip: the string without its trailing whitespace.
RStrip(str) ==
    LET ink == {i \in DOMAIN str : str[i] # " "}
    IN  IF ink = {} THEN <<>>
        ELSE SubSeq(str, 1, CHOOSE i \in ink : \A j \in ink : i >= j)

\* The inner loop in which a segment that equals the best overlap replaces it.
RECURSIVE BestFor_LastMax(_, _)
BestFor_LastMax(ws, diar_segments) ==
    IF diar_segments = <<>> THEN [best |-> None, best_overlap |-> 0]
    ELSE LET prev == BestFor_LastMax(ws, SubSeq(diar_segments, 1, Len(diar_segments) - 1))
             ds == diar_segments[Len(diar_segments)]
             ov == _overlap(ws.start, ws.end, ds.start, ds.end)
         IN  IF ov >= prev.best_overlap
             THEN [best |-> Len(diar_segments), best_overlap |-> ov]
             ELSE prev

\* The inner loop of map_whisper_to_diar (src/main.py 136-142): best is the
\* position of the segment of strictly greater overlap seen so far.
RECURSIVE BestFor(_, _)
BestFor(ws, diar_segments) ==
    IF diar_segments = <<>> THEN [best |-> None, best_overlap |-> 0]
    ELSE LET prev == BestFor(ws, SubSeq(diar_segments, 1, Len(diar_segments) - 1))
             ds == diar_segments[Len(diar_segments)]
             ov == _overlap(ws.start, ws.end, ds.start, ds.end)
         IN  IF ov > prev.best_overlap
             THEN [best |-> Len(diar_segments), best_overlap |-> ov]
             ELSE prev

\* The body of the outer loop (src/main.py 143-148): the text of ws goes to
\* the best segment, after a space when that segment has text already.
Attach(ws, diar_segments) ==
    LET b == BestFor(ws, diar_segments)
    IN  IF b.best # None /\ b.best_overlap > 0
        THEN [diar_segments EXCEPT ![b.best].text =
                 IF @ # <<>> THEN RStrip(@) \o <<" ">> \o Strip(ws.text)
                 ELSE Strip(ws.text)]
        ELSE diar_segments

\* map_whisper_to_diar (src/main.py 128-151).
RECURSIVE map_whisper_to_diar(_, _)
map_whisper_to_diar(diar_segments, whisper_segments) ==
    IF diar_segments = <<>> THEN <<>>
    ELSE IF whisper_segments = <<>> THEN diar_segments
    ELSE Attach(whisper_segments[Len(whisper_segments)],
                map_whisper_to_diar(diar_segments,
                    SubSeq(whisper_segments, 1, Len(whisper_segments) - 1)))

InitAlign ==
    \E D \in SeqsUpTo(DiarSegments, MaxDiar), W \in SeqsUpTo(WhisperSegments, MaxWhisper) :
        InitPure([D |-> D, W |-> W])

ApplyAlign ==
    /\ res = Pending
    /\ res' = Result(map_whisper_to_diar(arg.D, arg.W))
    /\ UNCHANGED <<service_vars, arg>>

SpecAlign == InitAlign /\ [][ApplyAlign]_vars

\* Overlap of transcription segment j with diarization segment i of the argument.
Ov(j, i) == _overlap(arg.W[j].start, arg.W[j].end, arg.D[i].start, arg.D[i].end)
\* The segment transcription segment j belongs to: the first in the order of D
\* among those of greatest overlap, when that overlap is positive; else None.
Target(j) ==
    LET top == {i \in DOMAIN arg.D : Ov(j, i) > 0 /\ \A k \in DOMAIN arg.D : Ov(j, k) <= Ov(j, i)}
    IN  IF top = {} THEN None ELSE CHOOSE i \in top : \A k \in top : i <= k
\* The stripped texts of the transcription segments 1..n that belong to
\* segment i, joined by single spaces in the order of W.
RECURSIVE Joined(_, _)
Joined(i, n) ==
    IF n = 0 THEN <<>>
    ELSE IF Target(n) # i THEN Joined(i, n - 1)
    ELSE IF Joined(i, n - 1) = <<>> THEN Strip(arg.W[n].text)
    ELSE Joined(i, n - 1) \o <<" ">> \o Strip(arg.W[n].text)

\* C16: for non-empty D and W the text of every diarization segment is the
\* space-joined texts, in the order of W, of exactly the transcription
\* segments for which it is the first segment of greatest positive overlap;
\* a transcription segment that overlaps nothing is in no segment's text.
C16_FirstMaxOverlap ==
    (res.done /\ arg.D # <<>> /\ arg.W # <<>>) =>
        /\ Len(res.val) = Len(arg.D)
        /\ \A i \in DOMAIN arg.D :
               /\ res.val[i].text = Joined(i, Len(arg.W))
               /\ res.val[i].start = arg.D[i].start
               /\ res.val[i].end = arg.D[i].end

\* C16 witness: two transcription segments, the first overlaps both
\* diarization segments equally and lands in the first, the second overlaps
\* the second one more and is joined to no text of the first.
C16_Witness ==
    /\ res.done
    /\ Len(arg.D) = 2 /\ Len(arg.W) = 2
    /\ Ov(1, 1) = Ov(1, 2) /\ Ov(1, 1) > 0
    /\ Ov(2, 2) > Ov(2, 1) /\ Ov(2, 1) > 0
    /\ res.val[1].text = Strip(arg.W[1].text)
    /\ res.val[2].text = Strip(arg.W[2].text)

\* -------------------------------------------------- assign_roles_by_policy
\* The roles, written in Latin letters: Manager, Client, Other n and
\* Autoresponder stand for the four Russian role names of the code. The text
\* of a transcription segment is, in these checks, a sequence of words.
Manager == "Manager"
Client == "Client"
Autoresponder == "Autoresponder"
OtherRole(n) == "Other " \o ToString(n)
NoRole == ""
NoSpeaker == ""

\* auto_patterns of detect_autoanswer (src/main.py 158-159), transliterated.
auto_patterns == << <<"vy", "pozvonili">>, <<"ostavte", "soobshchenie">>,
                    <<"posle", "signala">>, <<"avtootvetchik">>,
                    <<"soobshchenie", "ostavte">>, <<"ostavte", "golosovoe">>,
                    <<"dobro", "pozhalovat">>, <<"vy", "nabrali">> >>

\* detect_autoanswer (src/main.py 153-165): the position in whisper_segments
\* of the first segment whose lower-cased text contains a pattern, else None.
detect_autoanswer(segments, whisper_segments) ==
    LET hits == {j \in DOMAIN whisper_segments :
                    \E k \in DOMAIN auto_patterns :
                        Search(auto_patterns[k], whisper_segments[j].text)}
    IN  IF hits = {} THEN None ELSE CHOOSE j \in hits : \A k \in hits : j <= k

\* _normalize_speaker_label (src/main.py 228-233).
_normalize_speaker_label(sp) == IF sp = NoSpeaker THEN "Speaker" ELSE sp

\* Length of a segment as speaker_times counts it.
Duration(s) == Max(0, s.end - s.start)

\* speaker_times (src/main.py 192-195): the speakers in first-seen order,
\* each with the sum of the lengths of its segments.
RECURSIVE speaker_times(_)
speaker_times(diar_segments) ==
    IF diar_segments = <<>> THEN <<>>
    ELSE LET prev == speaker_times(SubSeq(diar_segments, 1, Len(diar_segments) - 1))
             s == diar_segments[Len(diar_segments)]
         IN  IF \E k \in DOMAIN prev : prev[k].sp = s.speaker
             THEN [k \in DOMAIN prev |->
                      IF prev[k].sp = s.speaker
                      THEN [prev[k] EXCEPT !.time = @ + Duration(s)]
                      ELSE prev[k]]
             ELSE Append(prev, [sp |-> s.speaker, time |-> Duration(s)])

\* sorted without reverse=True: the shortest talk time first.
RECURSIVE sorted_sp_Ascending(_)
sorted_sp_Ascending(items) ==
    IF items = <<>> THEN <<>>
    ELSE LET prev == sorted_sp_Ascending(SubSeq(items, 1, Len(items) - 1))
             x == items[Len(items)]
             k == Cardinality({i \in DOMAIN prev : prev[i].time <= x.time})
         IN  SubSeq(prev, 1, k) \o <<x>> \o SubSeq(prev, k + 1, Len(prev))

\* sorted(speaker_times.items(), key=time, reverse=True) (src/main.py 197):
\* longest talk time first; the sort is stable, so speakers of equal time stay
\* in the order of the dictionary.
RECURSIVE sorted_sp(_)
sorted_sp(items) ==
    IF items = <<>> THEN <<>>
    ELSE LET prev == sorted_sp(SubSeq(items, 1, Len(items) - 1))
             x == items[Len(items)]
             k == Cardinality({i \in DOMAIN prev : prev[i].time >= x.time})
         IN  SubSeq(prev, 1, k) \o <<x>> \o SubSeq(prev, k + 1, Len(prev))

\* The loops of roles_map without the test sp == auto_speaker.
Ranked_KeepAuto(items, auto_speaker) == items

\* The entries of a sorted list whose speaker is not auto_speaker.
RECURSIVE Ranked(_, _)
Ranked(items, auto_speaker) ==
    IF items = <<>> THEN <<>>
    ELSE IF Head(items).sp = auto_speaker THEN Ranked(Tail(items), auto_speaker)
    ELSE <<Head(items)>> \o Ranked(Tail(items), auto_speaker)

\* roles_map (src/main.py 199-218): the first loop gives Manager and Client to
\* the first two speakers that are not auto_speaker, the second loop numbers
\* the others from 1 in the same order.
roles_map(items, auto_speaker) ==
    LET ranked == Ranked(items, auto_speaker)
    IN  [sp \in {ranked[k].sp : k \in DOMAIN ranked} |->
            LET k == CHOOSE k \in DOMAIN ranked : ranked[k].sp = sp
            IN  IF k = 1 THEN Manager ELSE IF k = 2 THEN Client ELSE OtherRole(k - 2)]

\* assign_roles_by_policy (src/main.py 167-226).
assign_roles_by_policy(diar_segments, whisper_segments) ==
    IF diar_segments = <<>> THEN diar_segments
    ELSE
    LET ws_auto == detect_autoanswer(diar_segments, whisper_segments)
        b == IF ws_auto # None THEN BestFor(whisper_segments[ws_auto], diar_segments)
             ELSE [best |-> None, best_overlap |-> 0]
        tagged == b.best # None /\ b.best_overlap > 0
        auto_speaker == IF tagged THEN diar_segments[b.best].speaker ELSE NoSpeaker
        marked == IF tagged THEN [diar_segments EXCEPT ![b.best].role = Autoresponder]
                  ELSE diar_segments
        rmap == roles_map(sorted_sp(speaker_times(marked)), auto_speaker)
    IN  [i \in DOMAIN marked |->
            IF marked[i].role = Autoresponder THEN marked[i]
            ELSE [marked[i] EXCEPT !.role =
                     IF marked[i].speaker \in DOMAIN rmap THEN rmap[marked[i].speaker]
                     ELSE _normalize_speaker_label(marked[i].speaker)]]

\* Most diarization segments in the checks of the roles.
MaxRoleSegs == 4

\* Diarization segments of four speakers, two units and one unit long, and one
\* with its end before its start.
RoleSegments ==
    {[start |-> sp[1], end |-> sp[2], speaker |-> k, role |-> NoRole, text |-> <<>>] :
        sp \in {<<0, 2>>, <<2, 3>>}, k \in {"S0", "S1", "S2", "S3"}}
    \cup {[start |-> 4, end |-> 1, speaker |-> "S0", role |-> NoRole, text |-> <<>>]}
\* Transcripts: nothing, plain speech, an answering machine at the start, in
\* the second segment, and outside every diarization segment.
Hello == <<"allo">>
Greeting == <<"Vy", "pozvonili", "v", "ofis">>
RoleTranscripts ==
    {<<>>,
     <<[start |-> 0, end |-> 2, text |-> Hello]>>,
     <<[start |-> 0, end |-> 2, text |-> Greeting]>>,
     <<[start |-> 0, end |-> 2, text |-> Hello], [start |-> 2, end |-> 3, text |-> Greeting]>>,
     <<[start |-> 5, end |-> 6, text |-> Greeting]>>}

InitRoles ==
    \E D \in SeqsUpTo(RoleSegments, MaxRoleSegs), W \in RoleTranscripts :
        InitPure([D |-> D, W |-> W])

ApplyRoles ==
    /\ res = Pending
    /\ res' = Result(assign_roles_by_policy(arg.D, arg.W))
    /\ UNCHANGED <<service_vars, arg>>

SpecRoles == InitRoles /\ [][ApplyRoles]_vars

\* Total talk time of a speaker over the first n segments of the argument.
RECURSIVE TalkTime(_, _)
TalkTime(sp, n) ==
    IF n = 0 THEN 0
    ELSE TalkTime(sp, n - 1) + (IF arg.D[n].speaker = sp THEN Duration(arg.D[n]) ELSE 0)
FirstSeen(sp) ==
    CHOOSE i \in DOMAIN arg.D :
        arg.D[i].speaker = sp /\ \A j \in 1..(i - 1) : arg.D[j].speaker # sp
\* Number of speakers that talk longer than sp, or as long and are seen first.
Rank(sp) ==
    LET n == Len(arg.D)
    IN  Cardinality({q \in {arg.D[i].speaker : i \in DOMAIN arg.D} :
            \/ TalkTime(q, n) > TalkTime(sp, n)
            \/ TalkTime(q, n) = TalkTime(sp, n) /\ FirstSeen(q) < FirstSeen(sp)})
RoleOfRank(r) == IF r = 0 THEN Manager ELSE IF r = 1 THEN Client ELSE OtherRole(r - 1)
NoAutoanswer == detect_autoanswer(arg.D, arg.W) = None

\* C17: with no autoresponder detected, every segment carries the role of the
\* rank of its speaker by descending total talk time, speakers of equal time
\* ranked in first-seen order: Manager, Client, then Other n with n from 1;
\* the labels of the speakers play no part.
C17_RankedByTalkTime ==
    (res.done /\ arg.D # <<>> /\ NoAutoanswer) =>
        /\ Len(res.val) = Len(arg.D)
        /\ \A i \in DOMAIN arg.D : res.val[i].role = RoleOfRank(Rank(arg.D[i].speaker))

\* C17 witness: four speakers, the one seen first talks least, two of the
\* others tie, and the roles reach Other 2.
C17_Witness ==
    /\ res.done /\ Len(arg.D) = 4 /\ NoAutoanswer /\ arg.W # <<>>
    /\ Cardinality({arg.D[i].speaker : i \in DOMAIN arg.D}) = 4
    /\ TalkTime(arg.D[1].speaker, 4) < TalkTime(arg.D[2].speaker, 4)
    /\ TalkTime(arg.D[2].speaker, 4) = TalkTime(arg.D[3].speaker, 4)
    /\ res.val[2].role = Manager /\ res.val[3].role = Client
    /\ res.val[1].role = OtherRole(1) /\ res.val[4].role = OtherRole(2)

\* C18 as stated: after role assignment all segments that share a speaker
\* carry the same role, the segments of the autoresponder's speaker included.
C18_OneRolePerSpeaker ==
    res.done =>
        \A i, j \in DOMAIN res.val :
            res.val[i].speaker = res.val[j].speaker => res.val[i].role = res.val[j].role

\* The transcription segment in which an autoresponder phrase is detected, and
\* the diarization segment tagged for it: the first of those with the greatest
\* overlap against that transcription segment, when that overlap is positive.
AutoIndex ==
    LET j == detect_autoanswer(arg.D, arg.W)
    IN  IF j = None THEN None
        ELSE LET ov(i) == _overlap(arg.W[j].start, arg.W[j].end,
                                   arg.D[i].start, arg.D[i].end)
                 top == {i \in DOMAIN arg.D :
                            ov(i) > 0 /\ \A k \in DOMAIN arg.D : ov(k) <= ov(i)}
             IN  IF top = {} THEN None ELSE CHOOSE i \in top : \A k \in top : i <= k
\* Number of speakers other than auto that talk longer than sp, or as long and
\* are seen first.
RankWithout(sp, auto) ==
    LET n == Len(arg.D)
    IN  Cardinality({q \in {arg.D[i].speaker : i \in DOMAIN arg.D} \ {auto} :
            \/ TalkTime(q, n) > TalkTime(sp, n)
            \/ TalkTime(q, n) = TalkTime(sp, n) /\ FirstSeen(q) < FirstSeen(sp)})
RankedRoles == {Manager, Client} \cup {OtherRole(n) : n \in 1..MaxRoleSegs + 1}

\* C29: when an autoresponder phrase is detected and a diarization segment
\* overlaps it, the segment of greatest overlap has the role Autoresponder
\* after ranking, no segment of its speaker is given Manager, Client or
\* Other n, and every other speaker has the role of its rank by talk time
\* among the speakers without the autoresponder's.
C29_AutoSpeakerExcluded ==
    (res.done /\ arg.D # <<>> /\ AutoIndex # None) =>
        LET auto == arg.D[AutoIndex].speaker
        IN  /\ res.val[AutoIndex].role = Autoresponder
            /\ \A i \in DOMAIN arg.D :
                   IF arg.D[i].speaker = auto
                   THEN res.val[i].role \notin RankedRoles
                   ELSE res.val[i].role = RoleOfRank(RankWithout(arg.D[i].speaker, auto))

\* C29 witness: three speakers; the autoresponder's talks longest and has a
\* second segment beside the tagged one, and the other two are Manager and
\* Client.
C29_Witness ==
    /\ res.done /\ Len(arg.D) = 4 /\ AutoIndex # None
    /\ Cardinality({arg.D[i].speaker : i \in DOMAIN arg.D}) = 3
    /\ \A i \in DOMAIN arg.D :
           arg.D[i].speaker # arg.D[AutoIndex].speaker =>
               TalkTime(arg.D[i].speaker, 4) < TalkTime(arg.D[AutoIndex].speaker, 4)
    /\ \E i \in DOMAIN arg.D :
           i # AutoIndex /\ arg.D[i].speaker = arg.D[AutoIndex].speaker
    /\ res.val[AutoIndex].role = Autoresponder
    /\ \E i, k \in DOMAIN arg.D : res.val[i].role = Manager /\ res.val[k].role = Client

\* --------------------------------------- process_file: word redistribution
\* str.split: the maximal runs of characters that are not whitespace.
RECURSIVE Split(_)
Split(str) ==
    IF str = <<>> THEN <<>>
    ELSE IF Head(str) = " " THEN Split(Tail(str))
    ELSE LET gaps == {i \in DOMAIN str : str[i] = " "}
             stop == IF gaps = {} THEN Len(str) + 1
                     ELSE CHOOSE i \in gaps : \A j \in gaps : i <= j
         IN  <<SubSeq(str, 1, stop - 1)>> \o Split(SubSeq(str, stop, Len(str)))

\* " ".join(words).
RECURSIVE Join(_)
Join(words) ==
    IF words = <<>> THEN <<>>
    ELSE IF Len(words) = 1 THEN words[1]
    ELSE words[1] \o <<" ">> \o Join(Tail(words))

\* words[a:b] of Python, positions counted from zero, clipped to the list.
Slice(words, a, b) ==
    IF a >= Len(words) \/ b <= a THEN <<>> ELSE SubSeq(words, a + 1, Min(b, Len(words)))

\* sum(end - start) over the first n segments; lengths are not clamped here.
RECURSIVE SumDur(_, _)
SumDur(diar_segments, n) ==
    IF n = 0 THEN 0
    ELSE SumDur(diar_segments, n - 1) + (diar_segments[n].end - diar_segments[n].start)

\* int(x / y) for y > 0: the quotient rounded towards zero.
Trunc(x, y) == IF x >= 0 THEN x \div y ELSE -((-x) \div y)

\* take of segment i (src/main.py 283-285). The float product
\* len(words) * part_ratio can come out just below an exact integer, and int
\* then gives one less: under says that it does.
Take(diar_segments, words, total, under, i) ==
    LET dur == diar_segments[i].end - diar_segments[i].start
        num == IF total > 0 THEN Len(words) * dur ELSE Len(words)
        den == IF total > 0 THEN total ELSE Len(diar_segments)
        exact == Trunc(num, den)
    IN  Max(1, IF under /\ num > 0 /\ num % den = 0 THEN exact - 1 ELSE exact)

\* idx before segment i is handled (src/main.py 281, 288).
RECURSIVE Idx(_, _, _, _, _)
Idx(diar_segments, words, total, under, i) ==
    IF i = 1 THEN 0
    ELSE Idx(diar_segments, words, total, under, i - 1)
         + Take(diar_segments, words, total, under, i - 1)

\* The loop of the redistribution (src/main.py 282-288): every segment gets
\* the next take words.
Parts(diar_segments, words, total, under) ==
    [i \in DOMAIN diar_segments |->
        [diar_segments[i] EXCEPT !.text =
            LET idx == Idx(diar_segments, words, total, under, i)
            IN  Join(Slice(words, idx,
                           idx + Take(diar_segments, words, total, under, i)))]]

\* The redistribution without the words left after the loop.
redistribute_NoRemainder(diar_segments, text, under) ==
    IF /\ diar_segments # <<>>
       /\ \A i \in DOMAIN diar_segments : Strip(diar_segments[i].text) = <<>>
       /\ text # <<>>
    THEN LET sum == SumDur(diar_segments, Len(diar_segments))
         IN  Parts(diar_segments, Split(text), IF sum = 0 THEN 1 ELSE sum, under)
    ELSE diar_segments

\* The redistribution of process_file (src/main.py 277-290): when no segment
\* has text and the transcript is not empty, its words are dealt to the
\* segments by their share of the total length, and the words left over go to
\* the last segment.
redistribute(diar_segments, text, under) ==
    IF /\ diar_segments # <<>>
       /\ \A i \in DOMAIN diar_segments : Strip(diar_segments[i].text) = <<>>
       /\ text # <<>>
    THEN LET sum == SumDur(diar_segments, Len(diar_segments))
             total == IF sum = 0 THEN 1 ELSE sum
             words == Split(text)
             n == Len(diar_segments)
             parts == Parts(diar_segments, words, total, under)
             idx == Idx(diar_segments, words, total, under, n)
                    + Take(diar_segments, words, total, under, n)
         IN  IF idx < Len(words)
             THEN [parts EXCEPT ![n].text =
                      Strip(@ \o <<" ">> \o Join(Slice(words, idx, Len(words))))]
             ELSE parts
    ELSE diar_segments

\* Most diarization segments in the checks of the redistribution.
MaxRedist == 3

\* Segments without text of length zero, one and three, one with its end
\* before its start, one whose text is a blank, and one that has text.
RedistSegments ==
    {[start |-> sp[1], end |-> sp[2], text |-> <<>>] :
        sp \in {<<0, 0>>, <<0, 1>>, <<1, 4>>, <<4, 1>>}}
    \cup {[start |-> 0, end |-> 1, text |-> <<" ">>],
          [start |-> 0, end |-> 1, text |-> <<"b">>]}
\* Transcripts of no, one, two, three, four and six words, and a blank one.
FullTexts ==
    {<<>>, <<" ">>, <<"a">>, <<"a", " ", "b">>, <<" ", "a", " ", " ", "b", "c", " ">>,
     <<"a", " ", "b", " ", "c">>, <<"a", " ", "b", " ", "c", " ", "a">>,
     <<"a", " ", "b", " ", "c", " ", "a", "b", " ", "b", " ", "c">>}

InitRedist ==
    \E D \in SeqsUpTo(RedistSegments, MaxRedist), text \in FullTexts, under \in BOOLEAN :
        InitPure([D |-> D, text |-> text, under |-> under])

ApplyRedist ==
    /\ res = Pending
    /\ res' = Result(redistribute(arg.D, arg.text, arg.under))
    /\ UNCHANGED <<service_vars, arg>>

SpecRedist == InitRedist /\ [][ApplyRedist]_vars

\* The words of the texts of the first n segments, in segment order.
RECURSIVE WordsOf(_, _)
WordsOf(segments, n) ==
    IF n = 0 THEN <<>> ELSE WordsOf(segments, n - 1) \o Split(segments[n].text)
AllTextsEmpty == \A i \in DOMAIN arg.D : Strip(arg.D[i].text) = <<>>

\* C19: when every segment has empty text and the transcript is not empty,
\* the texts of the segments after the redistribution, taken in segment
\* order, hold exactly the words of the transcript, each once and in the
\* original order, whatever the number and the lengths of the segments.
C19_NoWordLost ==
    (res.done /\ arg.D # <<>> /\ AllTextsEmpty /\ arg.text # <<>>) =>
        /\ Len(res.val) = Len(arg.D)
        /\ WordsOf(res.val, Len(res.val)) = Split(arg.text)

\* C19 witness: three segments of total length zero and a transcript of two
\* words: the first two segments get one word each and the third none.
C19_Witness ==
    /\ res.done /\ Len(arg.D) = 3 /\ AllTextsEmpty
    /\ SumDur(arg.D, 3) = 0
    /\ Len(Split(arg.text)) = 2
    /\ res.val[1].text = Split(arg.text)[1]
    /\ res.val[2].text = Split(arg.text)[2]
    /\ res.val[3].text = <<>>

\* ---------------------------------------------------- is_informational_call
\* Default of min_words.
min_words == 6

\* Characters the pattern of re.sub keeps: letters (Cyrillic ones too),
\* digits and the underscore, and whitespace; every other character becomes a
\* space.
WordChars == {"a", "b", "1", "_"}
Clean(text) == [i \in DOMAIN text |-> IF text[i] \in WordChars \cup {" "} THEN text[i] ELSE " "]

\* The words of a list that are longer than one character.
RECURSIVE LongWords(_)
LongWords(words) ==
    IF words = <<>> THEN <<>>
    ELSE IF Len(Head(words)) > 1 THEN <<Head(words)>> \o LongWords(Tail(words))
    ELSE LongWords(Tail(words))

\* is_informational_call with the comparison > in place of >=.
is_informational_call_Above(text, min) ==
    IF text = <<>> THEN FALSE
    ELSE Len(LongWords(Split(Clean(text)))) > min

\* is_informational_call (src/core/analyzers.py 66-78).
is_informational_call(text, min) ==
    IF text = <<>> THEN FALSE
    ELSE Len(LongWords(Split(Clean(text)))) >= min

\* Most pieces of a transcript in the checks.
MaxPieces == 6

\* Pieces of a transcript: nothing, a letter, a word, two letters around a
\* hyphen, and two words around a comma, one of a digit and an underscore.
Pieces == {<<>>, <<"a">>, <<"a", "b">>, <<"a", "-", "b">>,
           <<"b", "a", ",", "1", "_">>}
\* Thresholds: the default, and the least that is positive.
Thresholds == {1, min_words}

InitInfo ==
    \E pieces \in SeqsUpTo(Pieces, MaxPieces), min \in Thresholds :
        InitPure([text |-> Join(pieces), min |-> min])

ApplyInfo ==
    /\ res = Pending
    /\ res' = Result(is_informational_call(arg.text, arg.min))
    /\ UNCHANGED <<service_vars, arg>>

SpecInfo == InitInfo /\ [][ApplyInfo]_vars

\* Number of maximal runs of word characters in the transcript that are
\* longer than one character.
LongRuns ==
    LET IsWord(i) == i \in DOMAIN arg.text /\ arg.text[i] \in WordChars
    IN  Cardinality({r \in (DOMAIN arg.text) \X (DOMAIN arg.text) :
            /\ r[1] < r[2]
            /\ \A i \in r[1]..r[2] : IsWord(i)
            /\ ~IsWord(r[1] - 1)
            /\ ~IsWord(r[2] + 1)})

\* C20: a transcript is informative exactly when it has at least threshold
\* tokens longer than one character, the tokens being what whitespace and
\* non-word characters separate; an empty or blank transcript is not
\* informative.
C20_Informative ==
    res.done =>
        /\ res.val = (LongRuns >= arg.min)
        /\ Strip(arg.text) = <<>> => res.val = FALSE

\* C20 witness: a transcript of exactly six long tokens, some of them set
\* apart by a comma only, beside a letter and a hyphenated pair that do not
\* count, is informative at the default threshold.
C20_Witness ==
    /\ res.done /\ arg.min = min_words
    /\ LongRuns = min_words
    /\ \E i \in DOMAIN arg.text : arg.text[i] = ","
    /\ \E i \in DOMAIN arg.text : arg.text[i] = "-"
    /\ res.val = TRUE

\* ------------------------------------------- process_call: owner resolution
\* Field values are strings; the empty string stands for a field that is
\* missing, None, empty or zero, which Python takes as false alike.
Empty == ""
\* Owner types int() accepts, and their values.
NumericTypes == {"1", "2"}
IntOf(str) == IF str = "1" THEN 1 ELSE 2

\* An owner id with its owner type; NoOwner before any source resolved.
NoOwner == [id |-> Empty, type |-> Empty]

\* Lines 259-264: the first binding that has both OWNER_ID and OWNER_TYPE_ID.
RECURSIVE FromBindings(_)
FromBindings(bindings) ==
    IF bindings = <<>> THEN NoOwner
    ELSE IF Head(bindings).OWNER_ID # Empty /\ Head(bindings).OWNER_TYPE_ID # Empty
    THEN [id |-> Head(bindings).OWNER_ID, type |-> Head(bindings).OWNER_TYPE_ID]
    ELSE FromBindings(Tail(bindings))

\* Lines 267-270: the record's own OWNER_ID and OWNER_TYPE_ID.
FromOwner(activity) ==
    IF activity.OWNER_ID # Empty /\ activity.OWNER_TYPE_ID # Empty
    THEN [id |-> activity.OWNER_ID, type |-> activity.OWNER_TYPE_ID]
    ELSE NoOwner

\* Lines 273-277: CRM_ENTITY_ID and CRM_ENTITY_TYPE of SETTINGS.
FromSettings(activity) ==
    IF activity.SETTINGS.CRM_ENTITY_ID # Empty /\ activity.SETTINGS.CRM_ENTITY_TYPE # Empty
    THEN [id |-> activity.SETTINGS.CRM_ENTITY_ID,
          type |-> activity.SETTINGS.CRM_ENTITY_TYPE]
    ELSE NoOwner

\* Lines 280-286: the first communication that has both ENTITY_ID and
\* ENTITY_TYPE_ID.
RECURSIVE FromCommunications(_)
FromCommunications(communications) ==
    IF communications = <<>> THEN NoOwner
    ELSE IF /\ Head(communications).ENTITY_ID # Empty
            /\ Head(communications).ENTITY_TYPE_ID # Empty
    THEN [id |-> Head(communications).ENTITY_ID,
          type |-> Head(communications).ENTITY_TYPE_ID]
    ELSE FromCommunications(Tail(communications))

\* The chain with the settings looked at before the record's own fields.
OwnerOf_SettingsFirst(activity) ==
    LET o1 == FromBindings(activity.BINDINGS)
        o2 == IF o1.id = Empty THEN FromSettings(activity) ELSE o1
        o3 == IF o2.id = Empty THEN FromOwner(activity) ELSE o2
    IN  IF o3.id = Empty THEN FromCommunications(activity.COMMUNICATIONS) ELSE o3

\* Lines 255-286: each source is looked at only while owner_id is not set.
OwnerOf(activity) ==
    LET o1 == FromBindings(activity.BINDINGS)
        o2 == IF o1.id = Empty THEN FromOwner(activity) ELSE o1
        o3 == IF o2.id = Empty THEN FromSettings(activity) ELSE o2
    IN  IF o3.id = Empty THEN FromCommunications(activity.COMMUNICATIONS) ELSE o3

\* Lines 288-317: without an owner the job returns; int(owner_type) raises on
\* a type that is not a number; else the comment goes to (owner_type, owner_id).
resolve_owner(activity) ==
    LET o == OwnerOf(activity)
    IN  IF o.id = Empty \/ o.type = Empty
        THEN [owner |-> o, end |-> "OwnerUnresolved", comment |-> <<>>]
        ELSE IF o.type \notin NumericTypes
        THEN [owner |-> o, end |-> "Exception", comment |-> <<>>]
        ELSE [owner |-> o, end |-> "Reported",
              comment |-> <<[owner_type |-> IntOf(o.type), owner_id |-> o.id]>>]

\* Most bindings and most communications of a record in the checks.
MaxLinks == 2

\* Pairs of an id and a type: the id alone, the type alone, both, both with a
\* type that is a word, both with another id and type.
Links == {<<"7", Empty>>, <<Empty, "1">>, <<"7", "1">>, <<"8", "DEAL">>, <<"9", "2">>}
Bindings == {[OWNER_ID |-> l[1], OWNER_TYPE_ID |-> l[2]] : l \in Links}
Communications == {[ENTITY_ID |-> l[1], ENTITY_TYPE_ID |-> l[2]] : l \in Links}

InitOwner ==
    \E bs \in SeqsUpTo(Bindings, MaxLinks), cs \in SeqsUpTo(Communications, MaxLinks),
       own \in Links, set \in Links :
        InitPure([BINDINGS |-> bs, OWNER_ID |-> own[1], OWNER_TYPE_ID |-> own[2],
                  SETTINGS |-> [CRM_ENTITY_ID |-> set[1], CRM_ENTITY_TYPE |-> set[2]],
                  COMMUNICATIONS |-> cs])

ApplyOwner ==
    /\ res = Pending
    /\ res' = Result(resolve_owner(arg))
    /\ UNCHANGED <<service_vars, arg>>

SpecOwner == InitOwner /\ [][ApplyOwner]_vars

\* What the four sources of the argument resolve to, in priority order: the
\* set of owners each offers (empty when the source does not resolve).
FirstIndex(S) == CHOOSE i \in S : \A j \in S : i <= j
Offer(k) ==
    CASE k = 1 ->
           LET ok == {i \in DOMAIN arg.BINDINGS :
                         /\ arg.BINDINGS[i].OWNER_ID # Empty
                         /\ arg.BINDINGS[i].OWNER_TYPE_ID # Empty}
           IN  IF ok = {} THEN {}
               ELSE {[id |-> arg.BINDINGS[FirstIndex(ok)].OWNER_ID,
                      type |-> arg.BINDINGS[FirstIndex(ok)].OWNER_TYPE_ID]}
      [] k = 2 ->
           IF arg.OWNER_ID # Empty /\ arg.OWNER_TYPE_ID # Empty
           THEN {[id |-> arg.OWNER_ID, type |-> arg.OWNER_TYPE_ID]} ELSE {}
      [] k = 3 ->
           IF arg.SETTINGS.CRM_ENTITY_ID # Empty /\ arg.SETTINGS.CRM_ENTITY_TYPE # Empty
           THEN {[id |-> arg.SETTINGS.CRM_ENTITY_ID, type |-> arg.SETTINGS.CRM_ENTITY_TYPE]}
           ELSE {}
      [] k = 4 ->
           LET ok == {i \in DOMAIN arg.COMMUNICATIONS :
                         /\ arg.COMMUNICATIONS[i].ENTITY_ID # Empty
                         /\ arg.COMMUNICATIONS[i].ENTITY_TYPE_ID # Empty}
           IN  IF ok = {} THEN {}
               ELSE {[id |-> arg.COMMUNICATIONS[FirstIndex(ok)].ENTITY_ID,
                      type |-> arg.COMMUNICATIONS[FirstIndex(ok)].ENTITY_TYPE_ID]}
Resolving == {k \in 1..4 : Offer(k) # {}}

PyNone == "<None>"
PyZero == "<0>"
Falsy == {Empty, PyNone, PyZero}
\* str(): None gives "None", 0 gives "0", a string is itself.
Str(v) == CASE v = PyNone -> "None" [] v = PyZero -> "0" [] OTHER -> v

\* The keys of SETTINGS in the order of the loop of line 112.
SettingsKeys == <<"FILE_ID", "RECORD_ID", "CALL_RECORD_ID", "CALL_RECORD_FILE_ID">>

\* The loop of lines 112-115 from key k on: the first value that is true.
RECURSIVE FromSettingsKeys(_, _)
FromSettingsKeys(settings, k) ==
    IF k > Len(SettingsKeys) THEN PyNone
    ELSE IF settings[SettingsKeys[k]] \notin Falsy THEN Str(settings[SettingsKeys[k]])
    ELSE FromSettingsKeys(settings, k + 1)

\* extract_file_id (src/bitrix_main.py 100-117).
extract_file_id(activity) ==
    LET files == activity.FILES
        fid == IF files = <<>> THEN Empty
               ELSE IF files[1].id \notin Falsy THEN files[1].id ELSE files[1].FILE_ID
        storage_ids == activity.STORAGE_ELEMENT_IDS
    IN  IF files # <<>> /\ fid \notin Falsy THEN Str(fid)
        ELSE IF storage_ids # <<>> THEN Str(storage_ids[1])
        ELSE FromSettingsKeys(activity.SETTINGS, 1)

\* Most entries of FILES and of STORAGE_ELEMENT_IDS in the checks.
MaxRefs == 2

FileEntries == {[id |-> i, FILE_ID |-> f] : i \in {Empty, "11"}, f \in {Empty, "12"}}
StorageValues == {Empty, PyNone, PyZero, "13"}
SettingsValues ==
    {[FILE_ID |-> a, RECORD_ID |-> b, CALL_RECORD_ID |-> c, CALL_RECORD_FILE_ID |-> d] :
        a \in {Empty, "21"}, b \in {Empty, "22"}, c \in {Empty, "23"}, d \in {Empty, "24"}}

InitFileId ==
    \E fs \in SeqsUpTo(FileEntries, MaxRefs), st \in SeqsUpTo(StorageValues, MaxRefs),
       set \in SettingsValues :
        InitPure([FILES |-> fs, STORAGE_ELEMENT_IDS |-> st, SETTINGS |-> set])

ApplyFileId ==
    /\ res = Pending
    /\ res' = Result(extract_file_id(arg))
    /\ UNCHANGED <<service_vars, arg>>

SpecFileId == InitFileId /\ [][ApplyFileId]_vars

\* The fields of the chain in priority order: id and FILE_ID of the first
\* file, the first storage element, the four keys of SETTINGS.
ChainOf(activity) ==
    (IF activity.FILES = <<>> THEN <<>>
     ELSE <<activity.FILES[1].id, activity.FILES[1].FILE_ID>>)
    \o (IF activity.STORAGE_ELEMENT_IDS = <<>> THEN <<>>
        ELSE <<activity.STORAGE_ELEMENT_IDS[1]>>)
    \o [k \in DOMAIN SettingsKeys |-> activity.SETTINGS[SettingsKeys[k]]]
NonEmptyAt(chain) == {i \in DOMAIN chain : chain[i] \notin Falsy}

\* C26 as stated: the result is the first non-empty identifier of the chain,
\* and it is None (or the empty string, which the caller takes for None)
\* exactly when no field of the chain holds one.
C26_FirstNonEmpty ==
    res.done =>
        LET chain == ChainOf(arg)
        IN  IF NonEmptyAt(chain) = {} THEN res.val \in {PyNone, Empty}
            ELSE res.val = chain[FirstIndex(NonEmptyAt(chain))]

\* ------------------------------------ process_file: diarization fallback
\* The outcome of diarizer.diarize: it raised, or it returned segments.
Raised == [raised |-> TRUE, segments |-> <<>>]
Returned(segments) == [raised |-> FALSE, segments |-> segments]
Unknown == "Unknown"
Speaker == "Spiker"

\* Length of the recording, in the units of Spans.
RecordingLength == 4

\* full_text of process_file (src/main.py 251-255): the texts of the
\* transcription segments joined by spaces and stripped; the text of the
\* plain transcription when there are no segments.
full_text_of(whisper_segments, plain) ==
    IF whisper_segments # <<>>
    THEN Strip(Join([j \in DOMAIN whisper_segments |-> whisper_segments[j].text]))
    ELSE plain

\* The single-segment fallback of process_file (src/main.py 266 and 269).
fallback_segments(text) ==
    <<[start |-> 0, end |-> 0, speaker |-> Unknown, role |-> Speaker, text |-> text]>>

\* ds.setdefault("text", "") of map_whisper_to_diar (src/main.py 135-136).
setdefault_text(diar_segments) ==
    [i \in DOMAIN diar_segments |->
        IF "text" \in DOMAIN diar_segments[i] THEN diar_segments[i]
        ELSE diar_segments[i] @@ [text |-> <<>>]]

\* process_file from the transcription to the alignment (src/main.py
\* 250-272): diar is the outcome of diarizer.diarize.
process_file(whisper_segments, plain, diar) ==
    LET text == full_text_of(whisper_segments, plain)
        caught == IF diar.raised THEN fallback_segments(text) ELSE diar.segments
        diar_segments == IF caught = <<>> THEN fallback_segments(text) ELSE caught
    IN  map_whisper_to_diar(setdefault_text(diar_segments), whisper_segments)

\* What the diarizer returns: it raises, nothing, one speaker over the whole
\* recording (as SimpleFallbackDiarizer does), two speakers.
DiarOutcomes ==
    {Raised, Returned(<<>>),
     Returned(<<[start |-> 0, end |-> RecordingLength, speaker |-> "Speaker_0"]>>),
     Returned(<<[start |-> 0, end |-> 2, speaker |-> "S0"],
                [start |-> 2, end |-> RecordingLength, speaker |-> "S1"]>>)}
\* The text of whisper_engine.transcribe when there are no segments.
PlainTexts == {<<>>, <<"a", " ", "b">>}

InitFallback ==
    \E W \in SeqsUpTo(WhisperSegments, MaxWhisper), plain \in PlainTexts,
       diar \in DiarOutcomes, duration \in {0, RecordingLength} :
        /\ duration = 0 => W = <<>>
        /\ InitPure([W |-> W, plain |-> plain, diar |-> diar, duration |-> duration])

ApplyFallback ==
    /\ res = Pending
    /\ res' = Result(process_file(arg.W, arg.plain, arg.diar))
    /\ UNCHANGED <<service_vars, arg>>

SpecFallback == InitFallback /\ [][ApplyFallback]_vars

\* C28 as stated: when the diarization list is empty, the alignment yields
\* exactly one segment, which spans the whole duration of the recording,
\* carries the whole transcript text and has the speaker "Unknown".
C28_SyntheticSpansDuration ==
    (res.done /\ arg.diar = Returned(<<>>)) =>
        /\ Len(res.val) = 1
        /\ res.val[1].start = 0
        /\ res.val[1].end = arg.duration
        /\ res.val[1].text = full_text_of(arg.W, arg.plain)
        /\ res.val[1].speaker = Unknown

====
